---------------------------- MODULE Spec2Model ----------------------------
(***************************************************************************)
(* A model of riviera, a RISC-V (RV64I) emulator: Memory (memory.rs), Bus  *)
(* (bus.rs), the ELF loader (elf.rs), the decoder and the instruction      *)
(* semantics (rv.rs), the CPU loop (cpu.rs) and the emulator (emulator.rs).*)
(*                                                                         *)
(* Machine words are sequences of bits, least significant bit first: a     *)
(* u64 / i64 is a sequence of 64 bits, a u32 / i32 one of 32 bits.  Bytes  *)
(* of a Memory and of a file are the integers 0..255.                      *)
(***************************************************************************)
EXTENDS Integers, Sequences, FiniteSets, TLC

VARIABLES
    checked,        \* build profile: TRUE = arithmetic overflow panics (debug)
    fileId,         \* the executable given on the command line (index in Files)
    interactive,    \* args.interactive
    mode,           \* where the emulator is: "new", "idle", "run", "step", "exit", "panic"
    regs,           \* Cpu.regs
    csregs,         \* Cpu.csregs (the slots written so far; all others hold 0)
    pc,             \* Cpu.pc
    next_pc,        \* Cpu.next_pc
    rom,            \* Bus.rom.memory
    dram,           \* Bus.dram.memory
    rom_offset,     \* Bus.rom_offset
    dram_offset,    \* Bus.dram_offset
    count,          \* count_instructions of the running cpu_loop / cpu_loop_interactive
    steps_left,     \* iterations left of the for loop of cpu_loop_interactive
    ret,            \* value returned by the last call of cpu_loop / cpu_loop_interactive
    total,          \* instruction_count of interactive_run / main
    fetched,        \* history: instructions fetched since the running call began
    op              \* harness specifications: the last operation applied and its result

vars == <<checked, fileId, interactive, mode, regs, csregs, pc, next_pc, rom, dram,
          rom_offset, dram_offset, count, steps_left, ret, total, fetched, op>>

(***************************************************************************)
(* Machine words                                                           *)
(***************************************************************************)

\* An index no buffer of the model reaches: what a usize too large to be a
\* model integer is taken as.
Huge == 1073741824

\* the sequence f, held as the tuple of its elements
AsSeq(f) == SubSeq(f, 1, Len(f))

\* The w-bit two's complement word of the integer n (|n| < 2^31).
Bits(n, w) ==
    AsSeq([i \in 1..w |-> IF i > 31 THEN (IF n < 0 THEN 1 ELSE 0)
                          ELSE (n \div (2 ^ (i - 1))) % 2])

\* The unsigned value of bits o+1 .. o+16 of the word b.
Limb(b, o) ==
    b[o + 1] + 2 * b[o + 2] + 4 * b[o + 3] + 8 * b[o + 4]
    + 16 * b[o + 5] + 32 * b[o + 6] + 64 * b[o + 7] + 128 * b[o + 8]
    + 256 * b[o + 9] + 512 * b[o + 10] + 1024 * b[o + 11] + 2048 * b[o + 12]
    + 4096 * b[o + 13] + 8192 * b[o + 14] + 16384 * b[o + 15] + 32768 * b[o + 16]

\* The unsigned value of a word of at most 30 bits.
Val32(b) == Limb(b, 0) + 65536 * Limb(b, 16)
Val(b) == Val32(AsSeq([i \in 1..32 |-> IF i <= Len(b) THEN b[i] ELSE 0]))

\* `x as usize` used as an index: the value, or Huge when it exceeds 2^30 - 1.
ToNat(b) ==
    IF \E i \in 31..Len(b) : b[i] = 1 THEN Huge
    ELSE Val(SubSeq(b, 1, IF Len(b) < 30 THEN Len(b) ELSE 30))

\* `x as u8`, `as u16`, `as u32`, `as u64` of a wider or equal unsigned word x.
Trunc(b, w) == SubSeq(b, 1, w)

\* `x as u64` of a narrower unsigned x (zero extension), or truncation.
ZExt(b, w) == AsSeq([i \in 1..w |-> IF i <= Len(b) THEN b[i] ELSE 0])

\* `x as i64` of a narrower signed x (sign extension), or truncation.
SExt(b, w) == AsSeq([i \in 1..w |-> IF i <= Len(b) THEN b[i] ELSE b[Len(b)]])

Zero64 == AsSeq([i \in 1..64 |-> 0])

\* a & b, a | b, a ^ b, !a
BAnd(a, b) == AsSeq([i \in 1..Len(a) |-> IF a[i] = 1 /\ b[i] = 1 THEN 1 ELSE 0])
BOr(a, b)  == AsSeq([i \in 1..Len(a) |-> IF a[i] = 1 \/ b[i] = 1 THEN 1 ELSE 0])
BXor(a, b) == AsSeq([i \in 1..Len(a) |-> IF a[i] # b[i] THEN 1 ELSE 0])
BNot(a)    == AsSeq([i \in 1..Len(a) |-> 1 - a[i]])

\* Bits i.. of a + b + c, c being the carry into bit i, and the carry out of
\* the last bit; the words are added sixteen bits at a time.
LimbSum(a, b, c, i) == Limb(a, i - 1) + Limb(b, i - 1) + c
RECURSIVE SumFrom(_, _, _, _)
SumFrom(a, b, c, i) ==
    IF i > Len(a) THEN <<>>
    ELSE Bits(LimbSum(a, b, c, i) % 65536, 16)
             \o SumFrom(a, b, LimbSum(a, b, c, i) \div 65536, i + 16)
RECURSIVE CarryOut(_, _, _, _)
CarryOut(a, b, c, i) ==
    IF i > Len(a) THEN c ELSE CarryOut(a, b, LimbSum(a, b, c, i) \div 65536, i + 16)

\* a + b and a - b modulo 2^Len(a) (wrapping_add, wrapping_sub)
WAdd(a, b) == SumFrom(a, b, 0, 1)
WSub(a, b) == SumFrom(a, BNot(b), 1, 1)

\* unsigned and signed `<`
ULt(a, b) ==
    \E i \in 1..Len(a) : a[i] < b[i] /\ \A k \in (i + 1)..Len(a) : a[k] = b[k]
SLt(a, b) ==
    IF a[Len(a)] # b[Len(a)] THEN a[Len(a)] = 1 ELSE ULt(a, b)

\* Does a + b / a - b overflow the unsigned, the signed range of its width?
UAddOverflows(a, b) == CarryOut(a, b, 0, 1) = 1
USubOverflows(a, b) == ULt(a, b)
SAddOverflows(a, b) ==
    a[Len(a)] = b[Len(a)] /\ WAdd(a, b)[Len(a)] # a[Len(a)]
SSubOverflows(a, b) ==
    a[Len(a)] # b[Len(a)] /\ WSub(a, b)[Len(a)] # a[Len(a)]

\* a << n, a >> n on an unsigned word, a >> n on a signed word (0 <= n < Len(a))
Shl(a, n)  == AsSeq([i \in 1..Len(a) |-> IF i - n >= 1 THEN a[i - n] ELSE 0])
Lshr(a, n) == AsSeq([i \in 1..Len(a) |-> IF i + n <= Len(a) THEN a[i + n] ELSE 0])
Ashr(a, n) == AsSeq([i \in 1..Len(a) |-> IF i + n <= Len(a) THEN a[i + n] ELSE a[Len(a)]])

(***************************************************************************)
(* Memory (memory.rs).  A Memory is its Vec<u8>: a sequence of bytes; the  *)
(* byte at offset o is element o + 1.  An operation that can panic returns *)
(* a record whose field ok tells whether it returned.                      *)
(***************************************************************************)

DRAM_DEFAULT_SIZE == 4096
ROM_DEFAULT_SIZE == 1024

\* Memory::new(Some(size)); Memory::new(None) is MemoryNew(0)
MemoryNew(size) == AsSeq([i \in 1..size |-> 0])

\* x.to_be_bytes() of an n-byte word: the byte order to_le_bytes must not have
to_be_bytes(data, n) ==
    AsSeq([k \in 1..n |-> Val(SubSeq(data, 8 * (n - k) + 1, 8 * (n - k) + 8))])

\* x.to_le_bytes() of an n-byte word, u<8n>::from_le_bytes(bytes)
to_le_bytes(data, n) ==
    AsSeq([k \in 1..n |-> Val(SubSeq(data, 8 * (k - 1) + 1, 8 * (k - 1) + 8))])
from_le_bytes(bytes) ==
    AsSeq([i \in 1..(8 * Len(bytes)) |->
              (bytes[((i - 1) \div 8) + 1] \div (2 ^ ((i - 1) % 8))) % 2])

\* A load that reads zeros past the end of the region instead of panicking
loadN_padded(mem, paddr, n) ==
    [ok |-> TRUE,
     val |-> from_le_bytes(AsSeq([k \in 1..n |->
                 IF paddr + k <= Len(mem) THEN mem[paddr + k] ELSE 0]))]

\* load8, load16, load32, load64: the n bytes at paddr, as an unsigned word
\* of 8n bits; indexing past the end panics.
loadN(mem, paddr, n) ==
    IF paddr + n > Len(mem) THEN [ok |-> FALSE, val |-> Bits(0, 8 * n)]
    ELSE [ok |-> TRUE, val |-> from_le_bytes(SubSeq(mem, paddr + 1, paddr + n))]

\* store8, store16, store32, store64: data (a word of 8n bits) at paddr
storeN(mem, data, paddr, n) ==
    IF paddr + n > Len(mem) THEN [ok |-> FALSE, mem |-> mem]
    ELSE [ok |-> TRUE,
          mem |-> SubSeq(mem, 1, paddr) \o to_le_bytes(data, n)
                      \o SubSeq(mem, paddr + n + 1, Len(mem))]

\* Memory::load(paddr, size): size is the number of bytes of the AccessSize
MemLoad(mem, paddr, n) ==
    LET r == loadN(mem, ToNat(paddr), n) IN [ok |-> r.ok, val |-> ZExt(r.val, 64)]

\* Memory::store(data, paddr, size)
MemStore(mem, data, paddr, n) == storeN(mem, Trunc(data, 8 * n), ToNat(paddr), n)

\* Memory::store_n_bytes(data, paddr, size), size being data.len(); chk tells
\* whether usize overflow panics.
store_n_bytes(mem, data, paddr, chk) ==
    LET size == Len(data)
        end  == WAdd(paddr, Bits(size, 64))
        wrap == UAddOverflows(paddr, Bits(size, 64)) IN
    IF wrap /\ chk THEN [ok |-> FALSE, mem |-> mem]
    ELSE IF ToNat(end) <= Len(mem)
    THEN IF wrap THEN [ok |-> FALSE, mem |-> mem]
         ELSE [ok |-> TRUE,
               mem |-> SubSeq(mem, 1, ToNat(paddr)) \o data
                           \o SubSeq(mem, ToNat(end) + 1, Len(mem))]
    ELSE [ok |-> TRUE, mem |-> mem \o data]

(***************************************************************************)
(* Bus (bus.rs).  A bus b is a record of rom, dram, rom_offset,            *)
(* dram_offset, and chk: whether integer overflow panics in this build.    *)
(***************************************************************************)

TEXT_START_DEFAULT == Bits(0, 64)
DATA_START_DEFAULT == Bits(131072, 64)

\* Bus::new(Some(memsize))
BusNew(memsize, chk) ==
    [rom |-> MemoryNew(ROM_DEFAULT_SIZE), dram |-> MemoryNew(memsize),
     rom_offset |-> TEXT_START_DEFAULT, dram_offset |-> DATA_START_DEFAULT,
     chk |-> chk]

\* Bus::read with `<=` for `<`: the DRAM base itself routed to the ROM
BusReadInclusive(b, addr, n) ==
    IF ~ULt(b.dram_offset, addr)
    THEN IF b.chk /\ USubOverflows(addr, b.rom_offset)
         THEN [ok |-> FALSE, val |-> Zero64]
         ELSE MemLoad(b.rom, WSub(addr, b.rom_offset), n)
    ELSE MemLoad(b.dram, WSub(addr, b.dram_offset), n)

\* Bus::read(addr, size)
BusRead(b, addr, n) ==
    IF ULt(addr, b.dram_offset)
    THEN IF b.chk /\ USubOverflows(addr, b.rom_offset)
         THEN [ok |-> FALSE, val |-> Zero64]
         ELSE MemLoad(b.rom, WSub(addr, b.rom_offset), n)
    ELSE MemLoad(b.dram, WSub(addr, b.dram_offset), n)

\* Bus::write(data, addr, size): the bus after the write
BusWrite(b, data, addr, n) ==
    IF ULt(addr, b.dram_offset)
    THEN IF b.chk /\ USubOverflows(addr, b.rom_offset)
         THEN [ok |-> FALSE, bus |-> b]
         ELSE LET r == MemStore(b.rom, data, WSub(addr, b.rom_offset), n) IN
              [ok |-> r.ok, bus |-> [b EXCEPT !.rom = r.mem]]
    ELSE LET r == MemStore(b.dram, data, WSub(addr, b.dram_offset), n) IN
         [ok |-> r.ok, bus |-> [b EXCEPT !.dram = r.mem]]

\* Bus::write_from_buf(addr, buf)
write_from_buf(b, addr, buf) ==
    IF ULt(addr, b.dram_offset)
    THEN IF b.chk /\ USubOverflows(addr, b.rom_offset)
         THEN [ok |-> FALSE, bus |-> b]
         ELSE LET r == store_n_bytes(b.rom, buf, WSub(addr, b.rom_offset), b.chk) IN
              [ok |-> r.ok, bus |-> [b EXCEPT !.rom = r.mem]]
    ELSE LET r == store_n_bytes(b.dram, buf, WSub(addr, b.dram_offset), b.chk) IN
         [ok |-> r.ok, bus |-> [b EXCEPT !.dram = r.mem]]

\* Bus::set_rom_offset, Bus::set_dram_offset
set_rom_offset(b, offset) == [b EXCEPT !.rom_offset = offset]
set_dram_offset(b, offset) == [b EXCEPT !.dram_offset = offset]

\* Bus::get_dram_size
get_dram_size(b) == Len(b.dram)

(***************************************************************************)
(* Cpu (cpu.rs).  A cpu c is a record of regs (indexed 0..31), csregs, pc, *)
(* next_pc, bus, and ok: FALSE once an operation has panicked.             *)
(***************************************************************************)

REG_FILE_SIZE == 32
CS_REG_FILE_SIZE == 4096
PC_INITIAL_VALUE == Bits(0, 64)

ZERO_REGISTER == 0
RETURN_REGISTER == 1
STACK_POINTER == 2
GLOBAL_POINTER == 3
SENTINEL_RETURN_ADDRESS == Bits(-2, 64)

\* Cpu::new(Some(memsize))
CpuNew(memsize, chk) ==
    [regs |-> [r \in 0..(REG_FILE_SIZE - 1) |-> Zero64],
     csregs |-> <<>>,
     pc |-> PC_INITIAL_VALUE,
     next_pc |-> PC_INITIAL_VALUE,
     bus |-> BusNew(memsize, chk),
     ok |-> TRUE]

\* a panic inside an operation on c
Panic(c) == [c EXCEPT !.ok = FALSE]

\* Cpu::write_reg, Cpu::read_reg
write_reg(c, regi, data) == [c EXCEPT !.regs[regi] = data]
read_reg(c, regi) == c.regs[regi]

\* Cpu::read_csreg: csregs.get(csregi) is None from CS_REG_FILE_SIZE on
csreg_valid(csregi) == csregi < CS_REG_FILE_SIZE
read_csreg(c, csregi) ==
    IF csregi \in DOMAIN c.csregs THEN c.csregs[csregi] ELSE Zero64

\* Cpu::write_csreg (csregi valid): slots holding 0 are not kept
write_csreg(c, csregi, data) ==
    LET dom == IF data = Zero64 THEN DOMAIN c.csregs \ {csregi}
               ELSE DOMAIN c.csregs \cup {csregi} IN
    [c EXCEPT !.csregs = [j \in dom |-> IF j = csregi THEN data ELSE c.csregs[j]]]

\* Cpu::set_next_pc_rel: next_pc = (pc as i64 + value) as u64
set_next_pc_rel(c, value) ==
    IF c.bus.chk /\ SAddOverflows(c.pc, value) THEN Panic(c)
    ELSE [c EXCEPT !.next_pc = WAdd(c.pc, value)]

\* Cpu::set_next_pc_abs
set_next_pc_abs(c, value) == [c EXCEPT !.next_pc = value]

\* Cpu::set_pc, Cpu::set_stack_pointer
set_pc(c, value) == [c EXCEPT !.pc = value]
set_stack_pointer(c, value) == [c EXCEPT !.regs[STACK_POINTER] = value]

\* Cpu::load, Cpu::store, Cpu::store_from_buffer
CpuLoad(c, addr, n) == BusRead(c.bus, addr, n)
CpuStore(c, data, addr, n) ==
    LET r == BusWrite(c.bus, data, addr, n) IN
    IF r.ok THEN [c EXCEPT !.bus = r.bus] ELSE Panic(c)
store_from_buffer(c, data, addr) ==
    LET r == write_from_buf(c.bus, addr, data) IN
    IF r.ok THEN [c EXCEPT !.bus = r.bus] ELSE Panic(c)

\* Cpu::get_read_write_memsize
get_read_write_memsize(c) == get_dram_size(c.bus)

\* Cpu::set_read_only_segment, Cpu::set_read_write_segment
set_read_only_segment(c, offset) == [c EXCEPT !.bus = set_rom_offset(c.bus, offset)]
set_read_write_segment(c, offset) == [c EXCEPT !.bus = set_dram_offset(c.bus, offset)]

(***************************************************************************)
(* Instruction semantics (rv.rs).  imm5, imm12 and imm20 are u32 words as  *)
(* decode extracts them; rd, rs1, rs2 are register indices.                *)
(***************************************************************************)

\* `a + b`, `a - b` on signed words: a panic when the build checks overflow
\* and the result overflows, else the wrapped result passed to Then(_).
CheckedSAdd(c, a, b, Then(_)) ==
    IF c.bus.chk /\ SAddOverflows(a, b) THEN Panic(c) ELSE Then(WAdd(a, b))
CheckedSSub(c, a, b, Then(_)) ==
    IF c.bus.chk /\ SSubOverflows(a, b) THEN Panic(c) ELSE Then(WSub(a, b))

\* the u32 word of a non-negative literal
U32(n) == Bits(n, 32)

decode_immediate_jtype(imm20) ==
    LET imm_32_20 == BAnd(imm20, Bits(-524288, 32))            \* 0xfff80000
        imm_19_12 == Shl(BAnd(imm20, U32(255)), 11)
        imm_11    == Shl(BAnd(imm20, U32(256)), 2)
        imm_10_0  == Lshr(BAnd(imm20, U32(523776)), 8)         \* 0x7fe00
    IN SExt(BOr(BOr(imm_32_20, imm_19_12), BOr(imm_11, imm_10_0)), 64)

decode_immediate_btype(imm5, imm12) ==
    LET imm_32_12 == BAnd(imm12, Bits(-2048, 32))              \* 0xfffff800
        imm_11    == Shl(BAnd(imm5, U32(1)), 10)
        imm_10_5  == BAnd(imm12, U32(2016))                    \* 0x7e0
        imm_4_0   == BAnd(imm5, BNot(U32(3)))
    IN SExt(BOr(BOr(imm_32_12, imm_11), BOr(imm_10_5, imm_4_0)), 64)

decode_immediate_stype(imm5, imm12) ==
    SExt(BOr(BAnd(imm12, Bits(-32, 32)), imm5), 64)            \* 0xffffffe0

lui(c, rd, imm) == write_reg(c, rd, ZExt(Shl(imm, 12), 64))

auipc(c, rd, imm) ==
    LET first_operand  == c.pc
        second_operand == Shl(SExt(imm, 64), 12)
        Then(sum) == write_reg(c, rd, sum)
    IN CheckedSAdd(c, first_operand, second_operand, Then)

jal(c, rd, imm) ==
    LET c1 == IF rd # ZERO_REGISTER THEN write_reg(c, rd, c.next_pc) ELSE c
    IN set_next_pc_rel(c1, decode_immediate_jtype(imm))

\* JALR with a target relative to the pc, as JAL's is
jalr_pc_relative(c, rs1, rd, imm) ==
    LET c1 == IF rd # ZERO_REGISTER THEN write_reg(c, rd, c.next_pc) ELSE c
    IN set_next_pc_rel(c1, WAdd(read_reg(c1, rs1), SExt(imm, 64)))

jalr(c, rs1, rd, imm) ==
    LET c1 == IF rd # ZERO_REGISTER THEN write_reg(c, rd, c.next_pc) ELSE c
        first_operand  == read_reg(c1, rs1)
        second_operand == SExt(imm, 64)
        Then(sum) == set_next_pc_abs(c1, BAnd(sum, Bits(-2, 64)))
    IN CheckedSAdd(c1, first_operand, second_operand, Then)

beq(c, rs1, rs2, imm5, imm12) ==
    IF read_reg(c, rs1) = read_reg(c, rs2)
    THEN set_next_pc_rel(c, decode_immediate_btype(imm5, imm12)) ELSE c

bne(c, rs1, rs2, imm5, imm12) ==
    IF read_reg(c, rs1) # read_reg(c, rs2)
    THEN set_next_pc_rel(c, decode_immediate_btype(imm5, imm12)) ELSE c

\* BLT comparing as BLTU does: the `as i64` casts left out
blt_unsigned(c, rs1, rs2, imm5, imm12) ==
    IF ULt(read_reg(c, rs1), read_reg(c, rs2))
    THEN set_next_pc_rel(c, decode_immediate_btype(imm5, imm12)) ELSE c

blt(c, rs1, rs2, imm5, imm12) ==
    IF SLt(read_reg(c, rs1), read_reg(c, rs2))
    THEN set_next_pc_rel(c, decode_immediate_btype(imm5, imm12)) ELSE c

bge(c, rs1, rs2, imm5, imm12) ==
    IF ~SLt(read_reg(c, rs1), read_reg(c, rs2))
    THEN set_next_pc_rel(c, decode_immediate_btype(imm5, imm12)) ELSE c

bltu(c, rs1, rs2, imm5, imm12) ==
    IF ULt(read_reg(c, rs1), read_reg(c, rs2))
    THEN set_next_pc_rel(c, decode_immediate_btype(imm5, imm12)) ELSE c

bgeu(c, rs1, rs2, imm5, imm12) ==
    IF ~ULt(read_reg(c, rs1), read_reg(c, rs2))
    THEN set_next_pc_rel(c, decode_immediate_btype(imm5, imm12)) ELSE c

\* A load that zero-extends whatever its mnemonic: `as i8`, `as i16` and
\* `as i32` left out
load_instr_zero_extends(c, rs1, rd, imm12, n, signed) ==
    LET Then(addr) ==
            LET r == CpuLoad(c, addr, n) IN
            IF ~r.ok THEN Panic(c) ELSE write_reg(c, rd, r.val)
    IN CheckedSAdd(c, read_reg(c, rs1), SExt(imm12, 64), Then)

\* lb, lh, lw (signed = TRUE: `as i8 as i64` ...) and lbu, lhu, lwu, ld
\* (signed = FALSE), n the bytes of the access
load_instr(c, rs1, rd, imm12, n, signed) ==
    LET Then(addr) ==
            LET r == CpuLoad(c, addr, n) IN
            IF ~r.ok THEN Panic(c)
            ELSE write_reg(c, rd, IF signed THEN SExt(Trunc(r.val, 8 * n), 64)
                                  ELSE r.val)
    IN CheckedSAdd(c, read_reg(c, rs1), SExt(imm12, 64), Then)

lb(c, rs1, rd, imm12)  == load_instr(c, rs1, rd, imm12, 1, TRUE)
lh(c, rs1, rd, imm12)  == load_instr(c, rs1, rd, imm12, 2, TRUE)
lw(c, rs1, rd, imm12)  == load_instr(c, rs1, rd, imm12, 4, TRUE)
ld(c, rs1, rd, imm12)  == load_instr(c, rs1, rd, imm12, 8, FALSE)
lbu(c, rs1, rd, imm12) == load_instr(c, rs1, rd, imm12, 1, FALSE)
lhu(c, rs1, rd, imm12) == load_instr(c, rs1, rd, imm12, 2, FALSE)
lwu(c, rs1, rd, imm12) == load_instr(c, rs1, rd, imm12, 4, FALSE)

\* A store whose data is the register rs1 names, not the one rs2 names
store_instr_of_rs1(c, rs1, imm12, imm5, n) ==
    LET data == read_reg(c, rs1)
        imm  == decode_immediate_stype(imm5, imm12)
        Then(addr) == CpuStore(c, data, addr, n)
    IN CheckedSAdd(c, read_reg(c, rs1), imm, Then)

\* sb, sh, sw, sd: n the bytes of the access
store_instr(c, rs1, imm12, imm5, n) ==
    LET rs2  == Val(Trunc(imm12, 5))
        data == read_reg(c, rs2)
        imm  == decode_immediate_stype(imm5, imm12)
        Then(addr) == CpuStore(c, data, addr, n)
    IN CheckedSAdd(c, read_reg(c, rs1), imm, Then)

sb(c, rs1, imm12, imm5) == store_instr(c, rs1, imm12, imm5, 1)
sh(c, rs1, imm12, imm5) == store_instr(c, rs1, imm12, imm5, 2)
sw(c, rs1, imm12, imm5) == store_instr(c, rs1, imm12, imm5, 4)
sd(c, rs1, imm12, imm5) == store_instr(c, rs1, imm12, imm5, 8)

addi(c, rs1, rd, imm12) ==
    LET Then(sum) == write_reg(c, rd, sum)
    IN CheckedSAdd(c, read_reg(c, rs1), SExt(imm12, 64), Then)

slti(c, rs1, rd, imm12) ==
    IF SLt(read_reg(c, rs1), SExt(imm12, 64))
    THEN write_reg(c, rd, Bits(1, 64)) ELSE write_reg(c, rd, Bits(0, 64))

sltiu(c, rs1, rd, imm12) ==
    IF ULt(read_reg(c, rs1), SExt(imm12, 64))
    THEN write_reg(c, rd, Bits(1, 64)) ELSE write_reg(c, rd, Bits(0, 64))

xori(c, rs1, rd, imm12) == write_reg(c, rd, BXor(read_reg(c, rs1), SExt(imm12, 64)))
ori(c, rs1, rd, imm12)  == write_reg(c, rd, BOr(read_reg(c, rs1), SExt(imm12, 64)))
andi(c, rs1, rd, imm12) == write_reg(c, rd, BAnd(read_reg(c, rs1), SExt(imm12, 64)))

slli(c, rs1, rd, imm12) ==
    LET first_operand  == read_reg(c, rs1)
        second_operand == Val(Trunc(imm12, 6))                 \* imm12 & 0x3f
    IN write_reg(c, rd, Shl(first_operand, second_operand))

slliw(c, rs1, rd, imm12) ==
    LET first_operand  == read_reg(c, rs1)
        second_operand == Val(Trunc(imm12, 5))                 \* imm12 & 0x1f
    IN write_reg(c, rd, Shl(first_operand, second_operand))

\* both arms shift the u64 first_operand: `>>` on an unsigned word
srli_srai(c, rs1, rd, imm12) ==
    LET first_operand  == read_reg(c, rs1)
        second_operand == Val(Trunc(imm12, 6))
    IN IF Lshr(imm12, 10) = U32(1)
       THEN write_reg(c, rd, Lshr(first_operand, second_operand))
       ELSE write_reg(c, rd, Lshr(first_operand, second_operand))

srliw_sraiw(c, rs1, rd, imm12) ==
    LET first_operand  == read_reg(c, rs1)
        second_operand == Val(Trunc(imm12, 5))
    IN IF Lshr(imm12, 10) = U32(1)
       THEN write_reg(c, rd, Lshr(first_operand, second_operand))
       ELSE write_reg(c, rd, Lshr(first_operand, second_operand))

add(c, rs1, rs2, rd) ==
    LET Then(sum) == write_reg(c, rd, sum)
    IN CheckedSAdd(c, read_reg(c, rs1), read_reg(c, rs2), Then)

addw(c, rs1, rs2, rd) ==
    LET Then(sum) == write_reg(c, rd, SExt(sum, 64))
    IN CheckedSAdd(c, Trunc(read_reg(c, rs1), 32), Trunc(read_reg(c, rs2), 32), Then)

sub(c, rs1, rs2, rd) ==
    LET Then(diff) == write_reg(c, rd, diff)
    IN CheckedSSub(c, read_reg(c, rs1), read_reg(c, rs2), Then)

subw(c, rs1, rs2, rd) ==
    LET Then(diff) == write_reg(c, rd, SExt(diff, 64))
    IN CheckedSSub(c, Trunc(read_reg(c, rs1), 32), Trunc(read_reg(c, rs2), 32), Then)

sll(c, rs1, rs2, rd) ==
    write_reg(c, rd, Shl(read_reg(c, rs1), Val(Trunc(read_reg(c, rs2), 6))))

sllw(c, rs1, rs2, rd) ==
    LET first_operand  == Trunc(read_reg(c, rs1), 32)          \* as u32
        second_operand == Val(Trunc(read_reg(c, rs2), 5))
    IN write_reg(c, rd, ZExt(Shl(first_operand, second_operand), 64))

slt(c, rs1, rs2, rd) ==
    IF SLt(read_reg(c, rs1), read_reg(c, rs2))
    THEN write_reg(c, rd, Bits(1, 64)) ELSE write_reg(c, rd, Bits(0, 64))

sltu(c, rs1, rs2, rd) ==
    IF ULt(read_reg(c, rs1), read_reg(c, rs2))
    THEN write_reg(c, rd, Bits(1, 64)) ELSE write_reg(c, rd, Bits(0, 64))

xor(c, rs1, rs2, rd) == write_reg(c, rd, BXor(read_reg(c, rs1), read_reg(c, rs2)))
or(c, rs1, rs2, rd)  == write_reg(c, rd, BOr(read_reg(c, rs1), read_reg(c, rs2)))
and(c, rs1, rs2, rd) == write_reg(c, rd, BAnd(read_reg(c, rs1), read_reg(c, rs2)))

srl(c, rs1, rs2, rd) ==
    write_reg(c, rd, Lshr(read_reg(c, rs1), Val(Trunc(read_reg(c, rs2), 6))))

srlw(c, rs1, rs2, rd) ==
    LET first_operand  == Trunc(read_reg(c, rs1), 32)          \* as u32
        second_operand == Val(Trunc(read_reg(c, rs2), 5))
    IN write_reg(c, rd, ZExt(Lshr(first_operand, second_operand), 64))

sra(c, rs1, rs2, rd) ==
    write_reg(c, rd, Ashr(read_reg(c, rs1), Val(Trunc(read_reg(c, rs2), 6))))

sraw(c, rs1, rs2, rd) ==
    LET first_operand  == Trunc(read_reg(c, rs1), 32)          \* as i32
        second_operand == Val(Trunc(read_reg(c, rs2), 5))
    IN write_reg(c, rd, SExt(Ashr(first_operand, second_operand), 64))

addiw(c, rs1, rd, imm12) ==
    LET Then(sum) == write_reg(c, rd, SExt(sum, 64))
    IN CheckedSAdd(c, Trunc(read_reg(c, rs1), 32), imm12, Then)

\* FENCE, FENCE.I, ECALL and EBREAK change nothing
\* ECALL and EBREAK as a trap entry: the PC saved in mepc (0x341)
ecall_ebreak_traps(c, imm12) == write_csreg(c, 833, c.pc)

fence(c) == c
fencei(c) == c
ecall_ebreak(c, imm12) == c

\* `imm12 as u16`, the index of the CSR
CsrIndex(imm12) == Val(Trunc(imm12, 16))

csrrw(c, rs1, rd, imm12) ==
    LET i == CsrIndex(imm12) IN
    IF ~csreg_valid(i) THEN Panic(c)
    ELSE LET c1 == IF rd # ZERO_REGISTER THEN write_reg(c, rd, read_csreg(c, i)) ELSE c
         IN write_csreg(c1, i, read_reg(c1, rs1))

csrrs(c, rs1, rd, imm12) ==
    LET i == CsrIndex(imm12) IN
    IF ~csreg_valid(i) THEN Panic(c)
    ELSE LET csr_data == read_csreg(c, i)
             c1 == IF rd # ZERO_REGISTER THEN write_reg(c, rd, csr_data) ELSE c
         IN write_csreg(c1, i, BOr(read_reg(c1, rs1), csr_data))

csrrc(c, rs1, rd, imm12) ==
    LET i == CsrIndex(imm12) IN
    IF ~csreg_valid(i) THEN Panic(c)
    ELSE LET csr_data == read_csreg(c, i)
             c1 == IF rd # ZERO_REGISTER THEN write_reg(c, rd, csr_data) ELSE c
         IN write_csreg(c1, i, BAnd(BNot(read_reg(c1, rs1)), csr_data))

csrrwi(c, rs1, rd, imm12) ==
    LET i == CsrIndex(imm12) IN
    IF ~csreg_valid(i) THEN Panic(c)
    ELSE LET c1 == IF rd # ZERO_REGISTER THEN write_reg(c, rd, read_csreg(c, i)) ELSE c
         IN write_csreg(c1, i, Bits(rs1, 64))

csrrsi(c, rs1, rd, imm12) ==
    LET i == CsrIndex(imm12) IN
    IF ~csreg_valid(i) THEN Panic(c)
    ELSE LET csr_data == read_csreg(c, i)
             c1 == IF rd # ZERO_REGISTER THEN write_reg(c, rd, csr_data) ELSE c
         IN write_csreg(c1, i, BOr(Bits(rs1, 64), csr_data))

csrrci(c, rs1, rd, imm12) ==
    LET i == CsrIndex(imm12) IN
    IF ~csreg_valid(i) THEN Panic(c)
    ELSE LET csr_data == read_csreg(c, i)
             c1 == IF rd # ZERO_REGISTER THEN write_reg(c, rd, csr_data) ELSE c
         IN write_csreg(c1, i, BAnd(BNot(Bits(rs1, 64)), csr_data))

(***************************************************************************)
(* The decoder (rv.rs, decode)                                             *)
(***************************************************************************)

\* bits lo..hi (0 is the least significant) of the instruction word
Field(instr, lo, hi) == SubSeq(instr, lo + 1, hi + 1)

\* OpCodes
RTYPE == 51
ITYPE == 19
STYPE == 35
BTYPE == 99
LOAD == 3
LUI == 55
AUIPC == 23
JAL == 111
JALR == 103
FENCE == 15
EXCEP == 115
RTYPE64 == 59
ITYPE64 == 27

\* decode(instr, curcpu): the cpu after the instruction, or a panic
decode(instr, c) ==
    LET opcode == Val(Field(instr, 0, 6))
        f3     == Val(Field(instr, 12, 14))
        f7     == Val(Field(instr, 25, 31))
        rd     == Val(Field(instr, 7, 11))
        rs1    == Val(Field(instr, 15, 19))
        rs2    == Val(Field(instr, 20, 24))
        imm5   == ZExt(Field(instr, 7, 11), 32)
        imm12  == SExt(Field(instr, 20, 31), 32)
        imm20  == SExt(Field(instr, 12, 31), 32)
    IN CASE opcode = LUI   -> lui(c, rd, imm20)
         [] opcode = AUIPC -> auipc(c, rd, imm20)
         [] opcode = JAL   -> jal(c, rd, imm20)
         [] opcode = JALR  /\ f3 = 0 -> jalr(c, rs1, rd, imm12)
         [] opcode = BTYPE /\ f3 = 0 -> beq(c, rs1, rs2, imm5, imm12)
         [] opcode = BTYPE /\ f3 = 1 -> bne(c, rs1, rs2, imm5, imm12)
         [] opcode = BTYPE /\ f3 = 4 -> blt(c, rs1, rs2, imm5, imm12)
         [] opcode = BTYPE /\ f3 = 5 -> bge(c, rs1, rs2, imm5, imm12)
         [] opcode = BTYPE /\ f3 = 6 -> bltu(c, rs1, rs2, imm5, imm12)
         [] opcode = BTYPE /\ f3 = 7 -> bgeu(c, rs1, rs2, imm5, imm12)
         [] opcode = LOAD  /\ f3 = 0 -> lb(c, rs1, rd, imm12)
         [] opcode = LOAD  /\ f3 = 1 -> lh(c, rs1, rd, imm12)
         [] opcode = LOAD  /\ f3 = 2 -> lw(c, rs1, rd, imm12)
         [] opcode = LOAD  /\ f3 = 4 -> lbu(c, rs1, rd, imm12)
         [] opcode = LOAD  /\ f3 = 5 -> lhu(c, rs1, rd, imm12)
         [] opcode = STYPE /\ f3 = 0 -> sb(c, rs1, imm12, imm5)
         [] opcode = STYPE /\ f3 = 1 -> sh(c, rs1, imm12, imm5)
         [] opcode = STYPE /\ f3 = 2 -> sw(c, rs1, imm12, imm5)
         [] opcode = ITYPE /\ f3 = 0 -> addi(c, rs1, rd, imm12)
         [] opcode = ITYPE /\ f3 = 2 -> slti(c, rs1, rd, imm12)
         [] opcode = ITYPE /\ f3 = 3 -> sltiu(c, rs1, rd, imm12)
         [] opcode = ITYPE /\ f3 = 4 -> xori(c, rs1, rd, imm12)
         [] opcode = ITYPE /\ f3 = 6 -> ori(c, rs1, rd, imm12)
         [] opcode = ITYPE /\ f3 = 7 -> andi(c, rs1, rd, imm12)
         [] opcode = ITYPE /\ f3 = 1 -> slli(c, rs1, rd, imm12)
         [] opcode = ITYPE /\ f3 = 5 -> srli_srai(c, rs1, rd, imm12)
         [] opcode = RTYPE /\ f3 = 0 /\ f7 = 0  -> add(c, rs1, rs2, rd)
         [] opcode = RTYPE /\ f3 = 0 /\ f7 = 32 -> sub(c, rs1, rs2, rd)
         [] opcode = RTYPE /\ f3 = 1 /\ f7 = 0  -> sll(c, rs1, rs2, rd)
         [] opcode = RTYPE /\ f3 = 2 /\ f7 = 0  -> slt(c, rs1, rs2, rd)
         [] opcode = RTYPE /\ f3 = 3 /\ f7 = 0  -> sltu(c, rs1, rs2, rd)
         [] opcode = RTYPE /\ f3 = 4 /\ f7 = 0  -> xor(c, rs1, rs2, rd)
         [] opcode = RTYPE /\ f3 = 5 /\ f7 = 0  -> srl(c, rs1, rs2, rd)
         [] opcode = RTYPE /\ f3 = 5 /\ f7 = 32 -> sra(c, rs1, rs2, rd)
         [] opcode = RTYPE /\ f3 = 6 /\ f7 = 0  -> or(c, rs1, rs2, rd)
         [] opcode = RTYPE /\ f3 = 7 /\ f7 = 0  -> and(c, rs1, rs2, rd)
         [] opcode = FENCE /\ f3 = 0 -> fence(c)
         [] opcode = FENCE /\ f3 = 1 -> fencei(c)
         [] opcode = EXCEP /\ f3 = 0 /\ f7 = 0 -> ecall_ebreak(c, imm12)
         [] opcode = EXCEP /\ f3 = 1 -> csrrw(c, rs1, rd, imm12)
         [] opcode = EXCEP /\ f3 = 2 -> csrrs(c, rs1, rd, imm12)
         [] opcode = EXCEP /\ f3 = 3 -> csrrc(c, rs1, rd, imm12)
         [] opcode = EXCEP /\ f3 = 5 -> csrrwi(c, rs1, rd, imm12)
         [] opcode = EXCEP /\ f3 = 6 -> csrrsi(c, rs1, rd, imm12)
         [] opcode = EXCEP /\ f3 = 7 -> csrrci(c, rs1, rd, imm12)
         [] opcode = LOAD    /\ f3 = 6 -> lwu(c, rs1, rd, imm12)
         [] opcode = LOAD    /\ f3 = 3 -> ld(c, rs1, rd, imm12)
         [] opcode = STYPE   /\ f3 = 3 -> sd(c, rs1, imm12, imm5)
         [] opcode = ITYPE64 /\ f3 = 0 -> addiw(c, rs1, rd, imm12)
         [] opcode = ITYPE64 /\ f3 = 1 /\ f7 = 0 -> slliw(c, rs1, rd, imm12)
         [] opcode = ITYPE64 /\ f3 = 5 -> srliw_sraiw(c, rs1, rd, imm12)
         [] opcode = RTYPE64 /\ f3 = 0 /\ f7 = 0  -> addw(c, rs1, rs2, rd)
         [] opcode = RTYPE64 /\ f3 = 0 /\ f7 = 32 -> subw(c, rs1, rs2, rd)
         [] opcode = RTYPE64 /\ f3 = 1 /\ f7 = 0  -> sllw(c, rs1, rs2, rd)
         [] opcode = RTYPE64 /\ f3 = 5 /\ f7 = 0  -> srlw(c, rs1, rs2, rd)
         [] opcode = RTYPE64 /\ f3 = 5 /\ f7 = 32 -> sraw(c, rs1, rs2, rd)
         [] OTHER -> Panic(c)

(***************************************************************************)
(* The CPU loop (cpu.rs)                                                   *)
(***************************************************************************)

\* Cpu::fetch: bus.read(pc, WORD) as Instruction
fetch(c) ==
    LET r == BusRead(c.bus, c.pc, 4) IN [ok |-> r.ok, instr |-> Trunc(r.val, 32)]

\* An iteration of cpu_loop that ends without `self.pc = self.next_pc`
keep_pc(c) == c

\* The end of an iteration that sets pc = next_pc even after a panic
commit_pc_after_panic(c) == [c EXCEPT !.pc = c.next_pc]

\* The end of an iteration of cpu_loop: pc = next_pc, unless decode panicked
commit_pc(c) == IF c.ok THEN [c EXCEPT !.pc = c.next_pc] ELSE c

\* An iteration of cpu_loop from the fetched word f on: next_pc = pc + 4,
\* decode_and_execute, pc = next_pc.
execute_fetched(c, f) ==
    IF ~f.ok THEN Panic(c)
    ELSE IF c.bus.chk /\ UAddOverflows(c.pc, Bits(4, 64)) THEN Panic(c)
    ELSE commit_pc(decode(f.instr, [c EXCEPT !.next_pc = WAdd(c.pc, Bits(4, 64))]))

\* One iteration of cpu_loop / cpu_loop_interactive past the halt check:
\* fetch, next_pc = pc + 4, decode_and_execute, pc = next_pc.
cpu_cycle(c) == execute_fetched(c, fetch(c))

(***************************************************************************)
(* The ELF loader (elf.rs).  buf is the file: a sequence of bytes.         *)
(***************************************************************************)

\* u16 / u32 / u64::from_le_bytes(buf[off..off + n])
ReadLE(buf, off, n) == from_le_bytes(SubSeq(buf, off + 1, off + n))

\* offsets of the ElfHeader and ProgHeader fields the loader uses, and sizes
EENTRY_OFF == 24
EPHOFF_OFF == 32
EPHENTSIZE_OFF == 54
EPHNUM_OFF == 56
ESHSTRNDX_OFF == 62
PTYPE_OFF == 0
PFLAGS_OFF == 4
POFFSET_OFF == 8
PPADDR_OFF == 24
PFILESZ_OFF == 32
PALIGN_OFF == 48
PTYPE_LOAD == 1
PFLAGS_READ == 4
PFLAGS_WRITE == 2
PFLAGS_EXEC == 1

\* ElfHeader::from_buffer: every field is sliced out of buf, the last one
\* (e_shstrndx) ending at byte ESHSTRNDX_OFF + 2; a shorter buf panics.
ElfHeader_from_buffer(buf) ==
    IF Len(buf) < ESHSTRNDX_OFF + 2 THEN [ok |-> FALSE]
    ELSE [ok |-> TRUE,
          e_entry     |-> ReadLE(buf, EENTRY_OFF, 8),
          e_phoff     |-> ToNat(ReadLE(buf, EPHOFF_OFF, 8)),
          e_phentsize |-> ToNat(ReadLE(buf, EPHENTSIZE_OFF, 2)),
          e_phnum     |-> ToNat(ReadLE(buf, EPHNUM_OFF, 2))]

\* A program header read as a loadable one whatever its p_type says
ProgHeader_from_buffer_any_type(buf, start, size) ==
    IF start + size > Len(buf) \/ size < PALIGN_OFF + 8 THEN [ok |-> FALSE]
    ELSE [ok |-> TRUE,
          p_type   |-> PTYPE_LOAD,
          p_flags  |-> ToNat(ReadLE(buf, start + PFLAGS_OFF, 4)),
          p_offset |-> ToNat(ReadLE(buf, start + POFFSET_OFF, 8)),
          p_paddr  |-> ReadLE(buf, start + PPADDR_OFF, 8),
          p_filesz |-> ToNat(ReadLE(buf, start + PFILESZ_OFF, 8))]

\* ProgHeader::from_buffer(&buf[start..start + size]): the slice must lie in
\* buf and hold every field, the last one (p_align) ending at PALIGN_OFF + 8.
ProgHeader_from_buffer(buf, start, size) ==
    IF start + size > Len(buf) \/ size < PALIGN_OFF + 8 THEN [ok |-> FALSE]
    ELSE [ok |-> TRUE,
          p_type   |-> ToNat(ReadLE(buf, start + PTYPE_OFF, 4)),
          p_flags  |-> ToNat(ReadLE(buf, start + PFLAGS_OFF, 4)),
          p_offset |-> ToNat(ReadLE(buf, start + POFFSET_OFF, 8)),
          p_paddr  |-> ReadLE(buf, start + PPADDR_OFF, 8),
          p_filesz |-> ToNat(ReadLE(buf, start + PFILESZ_OFF, 8))]

\* Elf::read_progheaders: the headers i..e_phnum-1 of type PTYPE_LOAD, in
\* order; ok is FALSE when reading one of them panics.
RECURSIVE read_progheaders(_, _, _)
read_progheaders(buf, hdr, i) ==
    IF i >= hdr.e_phnum THEN [ok |-> TRUE, hdrs |-> <<>>]
    ELSE LET ph   == ProgHeader_from_buffer(buf, hdr.e_phoff + hdr.e_phentsize * i,
                                            hdr.e_phentsize)
             rest == read_progheaders(buf, hdr, i + 1)
         IN IF ~ph.ok \/ ~rest.ok THEN [ok |-> FALSE, hdrs |-> <<>>]
            ELSE [ok |-> TRUE,
                  hdrs |-> IF ph.p_type = PTYPE_LOAD THEN <<ph>> \o rest.hdrs
                           ELSE rest.hdrs]

\* AddressSpace::new
AddressSpaceNew ==
    [read_execute_segment |-> TEXT_START_DEFAULT, read_execute_size |-> 0,
     read_execute_offset |-> 0,
     read_write_segment |-> DATA_START_DEFAULT, read_write_size |-> 0,
     read_write_offset |-> 0]

\* Elf::get_addrspace: the loop over program_headers, from header k on
RECURSIVE get_addrspace(_, _, _)
get_addrspace(hdrs, k, as) ==
    IF k > Len(hdrs) THEN as
    ELSE LET h  == hdrs[k]
             a1 == IF h.p_flags = PFLAGS_READ + PFLAGS_EXEC
                   THEN [as EXCEPT !.read_execute_segment = h.p_paddr,
                                   !.read_execute_offset = h.p_offset,
                                   !.read_execute_size = h.p_filesz]
                   ELSE as
             a2 == IF h.p_flags = PFLAGS_READ + PFLAGS_WRITE
                   THEN [a1 EXCEPT !.read_write_segment = h.p_paddr,
                                   !.read_write_offset = h.p_offset,
                                   !.read_write_size = h.p_filesz]
                   ELSE a1
         IN get_addrspace(hdrs, k + 1, a2)

(***************************************************************************)
(* The emulator (emulator.rs)                                              *)
(***************************************************************************)

\* A slice of the file cut at the end of the file instead of a panic
FileSliceToEnd(buf, off, size) ==
    [ok |-> TRUE,
     bytes |-> SubSeq(buf, off + 1, IF off + size > Len(buf) THEN Len(buf) ELSE off + size)]

\* &filebuffer[off..off + size]: ok is FALSE when the range is not in the file
FileSlice(buf, off, size) ==
    IF off + size > Len(buf) THEN [ok |-> FALSE, bytes |-> <<>>]
    ELSE [ok |-> TRUE, bytes |-> SubSeq(buf, off + 1, off + size)]

\* The register set-up with gp at the top of the DRAM, where sp is
load_program_registers_gp_top(c, entry_point, as) ==
    LET size == Bits(get_read_write_memsize(c), 64)
    IN IF ~c.ok THEN c
       ELSE IF c.bus.chk /\ UAddOverflows(as.read_write_segment, size) THEN Panic(c)
       ELSE write_reg(
                set_stack_pointer(
                    write_reg(set_pc(c, entry_point),
                              RETURN_REGISTER, SENTINEL_RETURN_ADDRESS),
                    WAdd(as.read_write_segment, size)),
                GLOBAL_POINTER, WAdd(as.read_write_segment, size))

\* The register set-up that ends Emulator::load_program
load_program_registers(c, entry_point, as) ==
    LET size == Bits(get_read_write_memsize(c), 64)
        half == Bits(get_read_write_memsize(c) \div 2, 64)
    IN IF ~c.ok THEN c
       ELSE IF c.bus.chk /\ UAddOverflows(as.read_write_segment, size) THEN Panic(c)
       ELSE write_reg(
                set_stack_pointer(
                    write_reg(set_pc(c, entry_point),
                              RETURN_REGISTER, SENTINEL_RETURN_ADDRESS),
                    WAdd(as.read_write_segment, size)),
                GLOBAL_POINTER, WAdd(as.read_write_segment, half))

\* Emulator::load_program, its last part: the data segment is stored, then
\* the registers are set
load_data(c, data, entry_point, as) ==
    IF ~c.ok THEN c
    ELSE IF ~data.ok THEN Panic(c)
    ELSE load_program_registers(store_from_buffer(c, data.bytes, as.read_write_segment),
                                entry_point, as)

\* Emulator::load_program from the address space on: the offsets of the bus
\* are set, the code segment is stored, then the data segment
load_segments(c, buf, entry_point, as) ==
    LET code == FileSlice(buf, as.read_execute_offset, as.read_execute_size) IN
    IF ~code.ok THEN Panic(c)
    ELSE load_data(store_from_buffer(
                       set_read_write_segment(
                           set_read_only_segment(c, as.read_execute_segment),
                           as.read_write_segment),
                       code.bytes, as.read_execute_segment),
                   FileSlice(buf, as.read_write_offset, as.read_write_size),
                   entry_point, as)

\* Emulator::load_program from the program headers on
load_headers(c, buf, hdr, phs) ==
    IF ~phs.ok THEN Panic(c)
    ELSE load_segments(c, buf, hdr.e_entry, get_addrspace(phs.hdrs, 1, AddressSpaceNew))

\* Emulator::load_program from the ELF header on
load_elf(c, buf, hdr) ==
    IF ~hdr.ok THEN Panic(c) ELSE load_headers(c, buf, hdr, read_progheaders(buf, hdr, 0))

\* Emulator::load_program on the bytes of the file
load_program(c, buf) == load_elf(c, buf, ElfHeader_from_buffer(buf))

(***************************************************************************)
(* Inputs: instruction words and executables.  The encoders are the        *)
(* inverse of decode's field extraction; B- and J-type immediates are      *)
(* placed as the RV64I instruction formats place them.                     *)
(***************************************************************************)

EncR(f7, rs2, rs1, f3, rd, opcode) ==
    Bits(opcode, 7) \o Bits(rd, 5) \o Bits(f3, 3) \o Bits(rs1, 5) \o Bits(rs2, 5)
        \o Bits(f7, 7)
EncI(imm, rs1, f3, rd, opcode) ==
    Bits(opcode, 7) \o Bits(rd, 5) \o Bits(f3, 3) \o Bits(rs1, 5) \o Bits(imm, 12)
EncS(imm, rs2, rs1, f3, opcode) ==
    LET b == Bits(imm, 12) IN
    Bits(opcode, 7) \o Field(b, 0, 4) \o Bits(f3, 3) \o Bits(rs1, 5) \o Bits(rs2, 5)
        \o Field(b, 5, 11)
EncU(imm20, rd, opcode) == Bits(opcode, 7) \o Bits(rd, 5) \o Bits(imm20, 20)
EncB(imm, rs2, rs1, f3, opcode) ==
    LET b == Bits(imm, 13) IN
    Bits(opcode, 7) \o Field(b, 11, 11) \o Field(b, 1, 4) \o Bits(f3, 3)
        \o Bits(rs1, 5) \o Bits(rs2, 5) \o Field(b, 5, 10) \o Field(b, 12, 12)
EncJ(imm, rd, opcode) ==
    LET b == Bits(imm, 21) IN
    Bits(opcode, 7) \o Bits(rd, 5) \o Field(b, 12, 19) \o Field(b, 11, 11)
        \o Field(b, 1, 10) \o Field(b, 20, 20)

\* assembler mnemonics used by the programs below
ADDI(rd, rs1, imm) == EncI(imm, rs1, 0, rd, ITYPE)
ADDIW(rd, rs1, imm) == EncI(imm, rs1, 0, rd, ITYPE64)
ADD(rd, rs1, rs2)  == EncR(0, rs2, rs1, 0, rd, RTYPE)
JALR_(rd, rs1, imm) == EncI(imm, rs1, 0, rd, JALR)
JAL_(rd, imm)      == EncJ(imm, rd, JAL)
LUI_(rd, imm20)    == EncU(imm20, rd, LUI)
BEQ(rs1, rs2, imm) == EncB(imm, rs2, rs1, 0, BTYPE)
BNE(rs1, rs2, imm) == EncB(imm, rs2, rs1, 1, BTYPE)
SD(rs2, imm, rs1)  == EncS(imm, rs2, rs1, 3, STYPE)
LD(rd, imm, rs1)   == EncI(imm, rs1, 3, rd, LOAD)
RET == JALR_(0, 1, 0)

\* the bytes of a program: each instruction word little-endian
RECURSIVE Assemble(_)
Assemble(prog) ==
    IF prog = <<>> THEN <<>> ELSE to_le_bytes(Head(prog), 4) \o Assemble(Tail(prog))

\* n as k little-endian bytes
LE(n, k) == to_le_bytes(Bits(n, 8 * k), k)

\* size of the ELF header and of a program header in the files below: each
\* ends with its last field (e_shstrndx, 2 bytes; p_align, 8 bytes)
EHDR_SIZE == ESHSTRNDX_OFF + 2
PHDR_SIZE == PALIGN_OFF + 8

\* A program header: type, flags, file offset, physical address, file size
MkPhdr(type, flags, offset, paddr, filesz) ==
    LE(type, 4) \o LE(flags, 4) \o LE(offset, 8) \o LE(0, 8) \o LE(paddr, 8)
        \o LE(filesz, 8) \o LE(filesz, 8) \o LE(0, 8)

\* An ELF header: magic, entry point, program header table right after it
MkEhdr(entry, phnum) ==
    <<127, 69, 76, 70>> \o [i \in 1..20 |-> 0] \o LE(entry, 8) \o LE(EHDR_SIZE, 8)
        \o [i \in 1..14 |-> 0] \o LE(PHDR_SIZE, 2) \o LE(phnum, 2) \o [i \in 1..6 |-> 0]

\* An executable with a code segment (flags 5) at code_base and a data
\* segment (flags 6) at data_base
MkElf(entry, code_base, code, data_base, data) ==
    LET code_off == EHDR_SIZE + 2 * PHDR_SIZE
        data_off == code_off + Len(code)
    IN MkEhdr(entry, 2)
         \o MkPhdr(PTYPE_LOAD, 5, code_off, code_base, Len(code))
         \o MkPhdr(PTYPE_LOAD, 6, data_off, data_base, Len(data))
         \o code \o data

\* An executable with a code segment only
MkElfCode(entry, code_base, code) ==
    MkEhdr(entry, 1) \o MkPhdr(PTYPE_LOAD, 5, EHDR_SIZE + PHDR_SIZE, code_base, Len(code))
        \o code

\* S1 of the specification
ProgS1 == <<ADDI(1, 0, 5), ADDI(2, 1, 37), ADD(3, 1, 2), JALR_(0, 1, -4), RET>>
\* S2: LUI x5, 0xDEAD0; ADDI x5, x5, 0xBEF
ProgS2 == <<LUI_(5, -136496), ADDI(5, 5, -1041), RET>>
\* S3: store / load round trip on the stack
ProgS3 == <<ADDI(2, 2, -8), LUI_(6, 74565), ADDI(6, 6, 1656), SD(6, 0, 2), LD(7, 0, 2), RET>>
\* S4 extended: a taken BEQ, a BNE not taken, and a JAL
ProgS4 == <<ADDI(5, 0, 1), BEQ(5, 5, 8), ADDI(6, 0, 1), BNE(5, 5, 8), JAL_(7, 8),
            ADDI(6, 0, 3), RET>>
\* S5: ADDI x1, x0, -1; ADDIW x2, x1, 1; RET
ProgS5 == <<ADDI(1, 0, -1), ADDIW(2, 1, 1), RET>>
\* S6: a write to the zero register
ProgS6 == <<ADDI(0, 0, 7), RET>>

DataBytes(n) == [i \in 1..n |-> 160 + i]

\* Bus::DATA_START_DEFAULT as an integer
DATA_BASE == 131072

\* the file of S2 cut inside the ELF header
FileCutHeader == SubSeq(MkElfCode(0, 0, Assemble(ProgS2)), 1, EHDR_SIZE - 24)

\* the file of S2 with an ELF header that announces two program headers
FileCutTable ==
    MkEhdr(0, 2) \o MkPhdr(PTYPE_LOAD, 5, EHDR_SIZE + PHDR_SIZE, 0, 12) \o Assemble(ProgS2)

\* the file of S2 with a code segment said to be four bytes longer than the
\* file has
FileCutCode ==
    MkEhdr(0, 1) \o MkPhdr(PTYPE_LOAD, 5, EHDR_SIZE + PHDR_SIZE, 0, 16) \o Assemble(ProgS2)

\* the file of S3 without the last eight bytes of its data segment
FileCutData ==
    SubSeq(MkElf(0, 0, Assemble(ProgS3), DATA_BASE, DataBytes(24)), 1,
           EHDR_SIZE + 2 * PHDR_SIZE + 24 + 16)

\* the executables the emulator is run on, and the files that are cut short
Files ==
    << MkElfCode(0, 0, Assemble(ProgS1)),
       MkElfCode(0, 0, Assemble(ProgS2)),
       MkElf(0, 0, Assemble(ProgS3), DATA_BASE, DataBytes(24)),
       MkElfCode(0, 0, Assemble(ProgS4)),
       MkElf(65536, 65536, Assemble(ProgS5), DATA_BASE, DataBytes(4)),
       MkElfCode(0, 0, Assemble(ProgS6)),
       FileCutHeader, FileCutTable, FileCutCode, FileCutData >>

\* -m: the DRAM sizes the emulator is started with
DramSizes == {16, 32}

(***************************************************************************)
(* The emulator run by main (main.rs): Emulator::new, load_program, then   *)
(* run() or, with -i, the commands of interactive_run.                     *)
(***************************************************************************)

\* most instructions executed in one behaviour
MaxInstr == 9
\* largest n of an `s n` command
MaxStep == 2

\* the Cpu held in the variables, and the variables taking a Cpu
TheCpu ==
    [regs |-> regs, csregs |-> csregs, pc |-> pc, next_pc |-> next_pc,
     bus |-> [rom |-> rom, dram |-> dram, rom_offset |-> rom_offset,
              dram_offset |-> dram_offset, chk |-> checked],
     ok |-> TRUE]

IsCpu(c) ==
    /\ regs = c.regs
    /\ csregs = c.csregs
    /\ pc = c.pc
    /\ next_pc = c.next_pc
    /\ rom = c.bus.rom
    /\ dram = c.bus.dram
    /\ rom_offset = c.bus.rom_offset
    /\ dram_offset = c.bus.dram_offset

SetCpu(c) ==
    /\ regs' = c.regs
    /\ csregs' = c.csregs
    /\ pc' = c.pc
    /\ next_pc' = c.next_pc
    /\ rom' = c.bus.rom
    /\ dram' = c.bus.dram
    /\ rom_offset' = c.bus.rom_offset
    /\ dram_offset' = c.bus.dram_offset

\* the variables after an operation on the Cpu that ends in c: a panic ends
\* the process, otherwise the emulator is in mode m with n more instructions
\* counted
Outcome(c, m, n) ==
    /\ SetCpu(c)
    /\ mode' = IF c.ok THEN m ELSE "panic"
    /\ count' = IF c.ok THEN count + n ELSE count

cpuVars == <<regs, csregs, pc, next_pc, rom, dram, rom_offset, dram_offset>>

NoOp == [kind |-> "none"]

\* main: Emulator::new(Some(memsize)) in a build with or without overflow checks
Init ==
    /\ checked \in BOOLEAN
    /\ interactive \in BOOLEAN
    /\ fileId \in 1..Len(Files)
    /\ \E memsize \in DramSizes :
          IsCpu(CpuNew(memsize, checked))
    /\ mode = "new"
    /\ count = 0
    /\ steps_left = 0
    /\ ret = -1
    /\ total = 0
    /\ fetched = 0
    /\ op = NoOp

\* main: emu.load_program(args.elf); an error or a panic ends the process
LoadProgram ==
    /\ mode = "new"
    /\ Outcome(load_program(TheCpu, Files[fileId]), "idle", 0)
    /\ UNCHANGED <<checked, fileId, interactive, steps_left, ret, total, fetched, op>>

\* Emulator::run / the `c` command: cpu_loop is entered
RunCall ==
    /\ mode = "idle"
    /\ mode' = "run"
    /\ count' = 0
    /\ fetched' = 0
    /\ UNCHANGED <<checked, fileId, interactive, cpuVars, steps_left, ret, total, op>>

\* cpu_loop without the halt check at the head of the loop
RunCycleAtSentinel ==
    /\ mode = "run"
    /\ total + count < MaxInstr
    /\ Outcome(cpu_cycle(TheCpu), "run", 1)
    /\ fetched' = fetched + 1
    /\ UNCHANGED <<checked, fileId, interactive, steps_left, ret, total, op>>

\* cpu_loop: one iteration that does not break
RunCycle ==
    /\ mode = "run"
    /\ pc # SENTINEL_RETURN_ADDRESS
    /\ total + count < MaxInstr
    /\ Outcome(cpu_cycle(TheCpu), "run", 1)
    /\ fetched' = fetched + 1
    /\ UNCHANGED <<checked, fileId, interactive, steps_left, ret, total, op>>

\* cpu_loop breaking with a count that includes the iteration that breaks
RunReturnCountingBreak ==
    /\ mode = "run"
    /\ pc = SENTINEL_RETURN_ADDRESS
    /\ ret' = count + 1
    /\ total' = total + count + 1
    /\ mode' = IF interactive THEN "idle" ELSE "exit"
    /\ UNCHANGED <<checked, fileId, interactive, cpuVars, count, steps_left, fetched, op>>

\* cpu_loop: the iteration that finds the sentinel breaks with the count
RunReturn ==
    /\ mode = "run"
    /\ pc = SENTINEL_RETURN_ADDRESS
    /\ ret' = count
    /\ total' = total + count
    /\ mode' = IF interactive THEN "idle" ELSE "exit"
    /\ UNCHANGED <<checked, fileId, interactive, cpuVars, count, steps_left, fetched, op>>

\* the `s n` command: cpu_loop_interactive(n) is entered
StepCall ==
    /\ mode = "idle"
    /\ interactive
    /\ \E n \in 0..MaxStep : steps_left' = n
    /\ mode' = "step"
    /\ count' = 0
    /\ fetched' = 0
    /\ UNCHANGED <<checked, fileId, interactive, cpuVars, ret, total, op>>

\* cpu_loop_interactive without the halt check at the head of the loop
StepCycleAtSentinel ==
    /\ mode = "step"
    /\ steps_left > 0
    /\ total + count < MaxInstr
    /\ Outcome(cpu_cycle(TheCpu), "step", 1)
    /\ steps_left' = steps_left - 1
    /\ fetched' = fetched + 1
    /\ UNCHANGED <<checked, fileId, interactive, ret, total, op>>

\* cpu_loop_interactive: one iteration that does not break
StepCycle ==
    /\ mode = "step"
    /\ steps_left > 0
    /\ pc # SENTINEL_RETURN_ADDRESS
    /\ total + count < MaxInstr
    /\ Outcome(cpu_cycle(TheCpu), "step", 1)
    /\ steps_left' = steps_left - 1
    /\ fetched' = fetched + 1
    /\ UNCHANGED <<checked, fileId, interactive, ret, total, op>>

\* the `s n` command keeping the count of the last call only: `=` for `+=`
StepReturnOverwriting ==
    /\ mode = "step"
    /\ steps_left = 0 \/ pc = SENTINEL_RETURN_ADDRESS
    /\ ret' = count
    /\ total' = count
    /\ mode' = "idle"
    /\ UNCHANGED <<checked, fileId, interactive, cpuVars, count, steps_left, fetched, op>>

\* cpu_loop_interactive: the for loop ends, or breaks at the sentinel
StepReturn ==
    /\ mode = "step"
    /\ steps_left = 0 \/ pc = SENTINEL_RETURN_ADDRESS
    /\ ret' = count
    /\ total' = total + count
    /\ mode' = "idle"
    /\ UNCHANGED <<checked, fileId, interactive, cpuVars, count, steps_left, fetched, op>>

\* the `q` command
Quit ==
    /\ mode = "idle"
    /\ interactive
    /\ mode' = "exit"
    /\ UNCHANGED <<checked, fileId, interactive, cpuVars, count, steps_left, ret, total,
                   fetched, op>>

Next ==
    \/ LoadProgram
    \/ RunCall
    \/ RunCycle
    \/ RunReturn
    \/ StepCall
    \/ StepCycle
    \/ StepReturn
    \/ Quit

Spec == Init /\ [][Next]_vars


(***************************************************************************)
(* Properties of the emulator (Spec)                                       *)
(***************************************************************************)

\* the emulator sits between load_program and the first fetch
JustLoaded == mode = "idle" /\ total = 0 /\ ret = -1

\* instructions executed since load_program
Executed == IF mode \in {"run", "step"} THEN total + count ELSE total

\* C1: at every point of execution, whatever instructions were executed
\* (those with rd = 0 included), a read of register 0 returns 0.
C1_ZeroRegisterReadsZero == read_reg(TheCpu, ZERO_REGISTER) = Zero64

\* the branch of instruction word instr is taken in register file rs
BranchTaken(instr, rs) ==
    LET f3 == Val(Field(instr, 12, 14))
        a  == rs[Val(Field(instr, 15, 19))]
        b  == rs[Val(Field(instr, 20, 24))]
    IN CASE f3 = 0 -> a = b
         [] f3 = 1 -> a # b
         [] f3 = 4 -> SLt(a, b)
         [] f3 = 5 -> ~SLt(a, b)
         [] f3 = 6 -> ULt(a, b)
         [] f3 = 7 -> ~ULt(a, b)
         [] OTHER -> FALSE

\* instr is a JAL, a JALR or a branch taken in register file rs
IsJump(instr, rs) ==
    \/ Val(Field(instr, 0, 6)) \in {JAL, JALR}
    \/ Val(Field(instr, 0, 6)) = BTYPE /\ BranchTaken(instr, rs)

\* a step that is one whole fetch/decode/execute cycle of cpu_loop or
\* cpu_loop_interactive
CycleStep == mode \in {"run", "step"} /\ mode' = mode /\ count' = count + 1

\* C2: in every cycle of cpu_loop and cpu_loop_interactive the PC after the
\* cycle is the NPC the cycle ends with, and for every instruction that is
\* not a taken branch, a JAL or a JALR it is the PC before the cycle plus 4.
C2_PcFollowsNextPc ==
    [][CycleStep =>
          /\ pc' = next_pc'
          /\ ~IsJump(fetch(TheCpu).instr, regs) => pc' = WAdd(pc, Bits(4, 64))]_vars

\* C2's case: the file of S4 after ADDI (PC + 4) and the taken BEQ (a jump)
C2_Witness == fileId = 4 /\ mode = "run" /\ count = 2 /\ pc = Bits(12, 64)

\* C3: whenever PC is the sentinel at the head of the loop of cpu_loop, the
\* call returns without fetching again and without touching the CPU, and
\* the count it returns is the number of instructions executed in the call.
C3_HaltAtSentinel ==
    [][(mode = "run" /\ pc = SENTINEL_RETURN_ADDRESS) =>
          /\ mode' \in {"idle", "exit"}
          /\ fetched' = fetched
          /\ ret' = fetched
          /\ UNCHANGED cpuVars]_vars

\* C3's case: run() has returned 3 after the three instructions of S2
C3_Witness ==
    fileId = 2 /\ ~interactive /\ mode = "exit" /\ ret = 3
        /\ pc = SENTINEL_RETURN_ADDRESS

\* the entry point written in the header of each of Files
FileEntry == <<0, 0, 0, 0, 65536, 0, 0, 0, 0, 0>>

\* C8: after load_program succeeds and before the first fetch, PC is the
\* entry point, ra is the sentinel, sp is data_base + dram_size, gp is
\* data_base + dram_size / 2 (dram_size being the size of the DRAM region
\* when the registers are set), and every other register is 0.
C8_InitialRegisters ==
    JustLoaded =>
        /\ pc = Bits(FileEntry[fileId], 64)
        /\ regs[RETURN_REGISTER] = Bits(-2, 64)
        /\ regs[STACK_POINTER] = Bits(DATA_BASE + Len(dram), 64)
        /\ regs[GLOBAL_POINTER] = Bits(DATA_BASE + (Len(dram) \div 2), 64)
        /\ \A r \in 0..31 : r \notin {1, 2, 3} => regs[r] = Zero64

\* C8's case: the file of S5 (entry point 0x10000) loaded into a 16-byte DRAM
C8_Witness == JustLoaded /\ fileId = 5 /\ Len(dram) = 16

\* the byte a 1-byte bus read returns at address base + i; -1 if it panics
ByteRead(base, i) ==
    LET r == BusRead(TheCpu.bus, WAdd(base, Bits(i, 64)), 1)
    IN IF r.ok THEN Val(Trunc(r.val, 8)) ELSE -1

\* the segments that address space as describes in file buf are readable
SegmentsReadable(buf, as) ==
    /\ \A i \in 0..(as.read_execute_size - 1) :
          ByteRead(as.read_execute_segment, i) = buf[as.read_execute_offset + i + 1]
    /\ \A j \in 0..(as.read_write_size - 1) :
          ByteRead(as.read_write_segment, j) = buf[as.read_write_offset + j + 1]

\* C9: after load_program succeeds, whatever the sizes of the segments
\* relative to the initial ROM and DRAM, a 1-byte bus read at code_base + i
\* returns file[code_off + i] for every i < code_size, and one at
\* data_base + j returns file[data_off + j] for every j < data_size.
C9_SegmentsLoaded ==
    JustLoaded =>
        SegmentsReadable(Files[fileId],
                         get_addrspace(read_progheaders(Files[fileId],
                                           ElfHeader_from_buffer(Files[fileId]), 0).hdrs,
                                       1, AddressSpaceNew))

\* C10 as stated: S1 halts once its 5 instructions are executed, with
\* x1 = 5, x2 = 42, x3 = 47 and a count of 5.
C10_S1HaltsAfterFive ==
    (fileId = 1 /\ mode = "run" /\ count >= 5) =>
        /\ count = 5
        /\ pc = SENTINEL_RETURN_ADDRESS
        /\ regs[1] = Bits(5, 64) /\ regs[2] = Bits(42, 64) /\ regs[3] = Bits(47, 64)

\* C10 amended: S1 never halts.  Its first instruction overwrites ra with 5,
\* JALR x0, x1, -4 jumps to (5 - 4) & ~1 = 0, and the first four
\* instructions repeat: PC is never the sentinel, run() never returns, and
\* x1 = 5, x2 = 42, x3 = 47 from the third instruction on.
C10_S1NeverHalts ==
    (fileId = 1 /\ mode # "new") =>
        /\ mode # "panic"
        /\ pc = Bits(4 * (Executed % 4), 64)
        /\ ~interactive => mode # "exit"
        /\ Executed >= 1 => regs[1] = Bits(5, 64)
        /\ Executed >= 2 => regs[2] = Bits(42, 64)
        /\ Executed >= 3 => regs[3] = Bits(47, 64)

\* C10's case: run() is past the five instructions of S1 and has not halted
C10_Witness == fileId = 1 /\ mode = "run" /\ count = 6 /\ pc = Bits(8, 64)

(***************************************************************************)
(* A Memory on its own (SpecMem): Memory::new(Some(MemSize)), then stores  *)
(* and loads of every AccessSize.  The Memory is held in dram; op is the   *)
(* last operation.                                                         *)
(***************************************************************************)

\* size of the Memory
MemSize == 12
\* most stores in one behaviour
MaxStores == 1

\* the bytes of AccessSize::BYTE, HALFWORD, WORD, DOUBLEWORD
AccessSizes == {1, 2, 4, 8}

\* the data stored: 0x0123456789ABCDEF and 0xFFFFFFFFFFFFFFFE
MemValues == {from_le_bytes(<<239, 205, 171, 137, 103, 69, 35, 1>>), Bits(-2, 64)}

\* the offsets accessed; an access of n bytes at paddr panics when
\* paddr + n > MemSize
MemOffsets == {0, 1, 4, 5, MemSize - 1}

\* the variables the harness specifications leave alone
idleVars == <<checked, fileId, interactive, regs, csregs, pc, next_pc, rom, rom_offset,
              dram_offset, steps_left, ret, total, fetched>>

InitMem ==
    /\ checked = FALSE
    /\ fileId = 0
    /\ interactive = FALSE
    /\ mode = "memory"
    /\ regs = <<>>
    /\ csregs = <<>>
    /\ pc = Zero64
    /\ next_pc = Zero64
    /\ rom = <<>>
    /\ dram = MemoryNew(MemSize)
    /\ rom_offset = Zero64
    /\ dram_offset = Zero64
    /\ count = 0
    /\ steps_left = 0
    /\ ret = -1
    /\ total = 0
    /\ fetched = 0
    /\ op = NoOp

\* the variables after Memory::store returned r
Stored(r, data, paddr, size) ==
    /\ dram' = r.mem
    /\ mode' = IF r.ok THEN "memory" ELSE "panic"
    /\ count' = count + 1
    /\ op' = [kind |-> "store", data |-> data, paddr |-> paddr, size |-> size]

\* memory.store(data, paddr, size)
MemoryStore ==
    /\ mode = "memory"
    /\ count < MaxStores
    /\ \E data \in MemValues, paddr \in MemOffsets, size \in AccessSizes :
          Stored(MemStore(dram, data, Bits(paddr, 64), size), data, paddr, size)
    /\ UNCHANGED idleVars

\* the variables after Memory::load returned r
Loaded(r, paddr, size) ==
    /\ mode' = IF r.ok THEN "memory" ELSE "panic"
    /\ op' = [kind |-> "load", paddr |-> paddr, size |-> size, val |-> r.val]
    /\ UNCHANGED <<dram, count>>

\* memory.load(paddr, size)
MemoryLoad ==
    /\ mode = "memory"
    /\ \E paddr \in MemOffsets, size \in AccessSizes :
          Loaded(MemLoad(dram, Bits(paddr, 64), size), paddr, size)
    /\ UNCHANGED idleVars

NextMem == MemoryStore \/ MemoryLoad

SpecMem == InitMem /\ [][NextMem]_vars

\* byte k (0 is the least significant) of the word v, and v mod 2^(8n)
ByteOf(v, k) == Val(SubSeq(v, 8 * k + 1, 8 * k + 8))
LowBytes(v, n) == [i \in 1..64 |-> IF i <= 8 * n THEN v[i] ELSE 0]

\* C4: for every width w in {1, 2, 4, 8}, every value v and every offset o
\* with o + w <= size, store(v, o, w) lays the low w bytes of v out
\* little-endian from offset o (the least significant byte at o), and a
\* load(o, w) right after it returns v mod 2^(8w).
C4_StoreLoadRoundTrip ==
    [][(mode = "memory" /\ op.kind = "store") =>
          /\ \A k \in 0..(op.size - 1) : dram[op.paddr + k + 1] = ByteOf(op.data, k)
          /\ (mode' = "memory" /\ op'.kind = "load" /\ op'.paddr = op.paddr
                  /\ op'.size = op.size)
                => op'.val = LowBytes(op.data, op.size)]_vars

\* C4's case: 0x0123456789ABCDEF stored as a doubleword at offset 4 has been
\* loaded back from there
C4_Witness ==
    /\ mode = "memory" /\ op.kind = "load" /\ op.paddr = 4 /\ op.size = 8
    /\ op.val = from_le_bytes(<<239, 205, 171, 137, 103, 69, 35, 1>>)
    /\ dram[5] = 239 /\ dram[12] = 1

(***************************************************************************)
(* A Bus on its own (SpecBus): Bus::new(Some(BusDramSize)), the bases set  *)
(* as load_program sets them, a code and a data image stored, then reads,  *)
(* writes and buffer writes at addresses around both bases.                *)
(***************************************************************************)

\* size of the DRAM of the bus
BusDramSize == 16
\* most bus operations in one behaviour
MaxBusOps == 1

\* the configured <<ROM base, DRAM base>>: the defaults, and a DRAM that
\* starts where the ROM ends
BusBases == {<<0, DATA_BASE>>, <<64, 64 + ROM_DEFAULT_SIZE>>}

\* the images stored at the two bases
RomImage == AsSeq([i \in 1..8 |-> 16 + i])
DramImage == AsSeq([i \in 1..8 |-> 32 + i])

\* the data written, and the buffers: one that fits, one longer than the DRAM
BusValues == {from_le_bytes(<<239, 205, 171, 137, 103, 69, 35, 1>>)}
BusBuffers == {<<200, 201, 202>>, AsSeq([i \in 1..(BusDramSize + 4) |-> 100 + i])}

\* the bus held in the variables
TheBus ==
    [rom |-> rom, dram |-> dram, rom_offset |-> rom_offset, dram_offset |-> dram_offset,
     chk |-> checked]

\* the variables hold bus b
IsBus(b) ==
    /\ rom = b.rom
    /\ dram = b.dram
    /\ rom_offset = b.rom_offset
    /\ dram_offset = b.dram_offset

\* the bus with bases rb and db and the two images stored
BusLoaded(rb, db, chk) ==
    write_from_buf(
        write_from_buf(set_dram_offset(set_rom_offset(BusNew(BusDramSize, chk), rb), db),
                       rb, RomImage).bus,
        db, DramImage).bus

InitBus ==
    /\ checked \in BOOLEAN
    /\ \E bases \in BusBases :
          IsBus(BusLoaded(Bits(bases[1], 64), Bits(bases[2], 64), checked))
    /\ fileId = 0
    /\ interactive = FALSE
    /\ mode = "bus"
    /\ regs = <<>>
    /\ csregs = <<>>
    /\ pc = Zero64
    /\ next_pc = Zero64
    /\ count = 0
    /\ steps_left = 0
    /\ ret = -1
    /\ total = 0
    /\ fetched = 0
    /\ op = NoOp

\* the guest addresses accessed: below, at and above each base, the last
\* address below the DRAM base, and the last byte of the DRAM
BusAddrs ==
    {a \in {ToNat(rom_offset) - 8, ToNat(rom_offset), ToNat(rom_offset) + 3,
            ToNat(dram_offset) - 1, ToNat(dram_offset), ToNat(dram_offset) + 4,
            ToNat(dram_offset) + Len(dram) - 1} : a >= 0}

busVars == <<checked, fileId, interactive, regs, csregs, pc, next_pc, steps_left, ret,
             total, fetched>>

\* the variables after Bus::read returned r
BusReadDone(r, addr, size) ==
    /\ mode' = IF r.ok THEN "bus" ELSE "panic"
    /\ op' = [kind |-> "read", addr |-> addr, size |-> size, ok |-> r.ok, val |-> r.val]
    /\ count' = count + 1
    /\ UNCHANGED <<rom, dram, rom_offset, dram_offset>>

\* bus.read(addr, size)
BusReadOp ==
    /\ mode = "bus"
    /\ count < MaxBusOps
    /\ \E addr \in BusAddrs, size \in AccessSizes :
          BusReadDone(BusRead(TheBus, Bits(addr, 64), size), addr, size)
    /\ UNCHANGED busVars

\* the variables after Bus::write or Bus::write_from_buf returned r
BusWriteDone(r, o) ==
    /\ mode' = IF r.ok THEN "bus" ELSE "panic"
    /\ rom' = r.bus.rom
    /\ dram' = r.bus.dram
    /\ op' = [o EXCEPT !.ok = r.ok]
    /\ count' = count + 1
    /\ UNCHANGED <<rom_offset, dram_offset>>

\* bus.write(data, addr, size)
BusWriteOp ==
    /\ mode = "bus"
    /\ count < MaxBusOps
    /\ \E data \in BusValues, addr \in BusAddrs, size \in AccessSizes :
          BusWriteDone(BusWrite(TheBus, data, Bits(addr, 64), size),
                       [kind |-> "write", addr |-> addr, size |-> size, data |-> data,
                        ok |-> TRUE])
    /\ UNCHANGED busVars

\* bus.write_from_buf(addr, buf)
BusWriteBufOp ==
    /\ mode = "bus"
    /\ count < MaxBusOps
    /\ \E addr \in BusAddrs, buf \in BusBuffers :
          BusWriteDone(write_from_buf(TheBus, Bits(addr, 64), buf),
                       [kind |-> "write_from_buf", addr |-> addr, buf |-> buf, ok |-> TRUE])
    /\ UNCHANGED busVars

NextBus == BusReadOp \/ BusWriteOp \/ BusWriteBufOp

SpecBus == InitBus /\ [][NextBus]_vars

\* the n bytes of region that start at offset off, as a little-endian value
\* extended with zeros to 64 bits
RegionValue(region, off, n) ==
    AsSeq([i \in 1..64 |->
        IF i <= 8 * n THEN (region[off + ((i - 1) \div 8) + 1] \div (2 ^ ((i - 1) % 8))) % 2
        ELSE 0])

\* region with the low n bytes of data written from offset off on
RegionWritten(region, off, data, n) ==
    AsSeq([i \in 1..Len(region) |->
        IF i > off /\ i <= off + n THEN ByteOf(data, i - off - 1) ELSE region[i]])

\* Operation o, on guest address base + off, acted on region at offset off and
\* on nothing else: it left the other region alone; a read or a write panics
\* exactly when off .. off + size is not in the region, a read returns the
\* bytes at off, a write leaves its data there, and a buffer write is the
\* region's store_n_bytes at off.  Below the base there is no offset: the
\* operation panics, or (a buffer write in a build that wraps) returns.
ActsOn(region, regionAfter, other, otherAfter, off, o) ==
    /\ otherAfter = other
    /\ off < 0 => ~o.ok \/ (o.kind = "write_from_buf" /\ ~checked)
    /\ (off >= 0 /\ o.kind = "read") =>
          /\ o.ok = (off + o.size <= Len(region))
          /\ o.ok => o.val = RegionValue(region, off, o.size)
          /\ regionAfter = region
    /\ (off >= 0 /\ o.kind = "write") =>
          /\ o.ok = (off + o.size <= Len(region))
          /\ o.ok => regionAfter = RegionWritten(region, off, o.data, o.size)
    /\ (off >= 0 /\ o.kind = "write_from_buf") =>
          /\ o.ok
          /\ regionAfter = store_n_bytes(region, o.buf, Bits(off, 64), checked).mem

\* C5: for every guest address a, every access width and the configured ROM
\* and DRAM bases, Bus read, write and write_from_buf act on the ROM at
\* offset a - rom_base when a is strictly less than the DRAM base, and on
\* the DRAM at offset a - dram_base otherwise.
C5_BusRouting ==
    [][(mode = "bus" /\ count' = count + 1) =>
          IF op'.addr < ToNat(dram_offset)
          THEN ActsOn(rom, rom', dram, dram', op'.addr - ToNat(rom_offset), op')
          ELSE ActsOn(dram, dram', rom, rom', op'.addr - ToNat(dram_offset), op')]_vars

\* C5's case: with the ROM based at 64 and the DRAM at 1088, a byte read at
\* the DRAM base itself returned the first byte of the DRAM image
C5_Witness ==
    /\ mode = "bus" /\ ToNat(rom_offset) = 64 /\ ToNat(dram_offset) = 1088
    /\ op.kind = "read" /\ op.addr = 1088 /\ op.size = 1 /\ op.ok
    /\ op.val = Bits(DramImage[1], 64)

(***************************************************************************)
(* One instruction on a fresh Cpu (SpecInstr): Cpu::new, x1 and x2 written *)
(* with write_reg, an instruction word stored in the ROM at the pc, then   *)
(* iterations of cpu_loop.                                                 *)
(***************************************************************************)

\* size of the DRAM of the Cpu
InstrDramSize == 16
\* most instructions executed in one behaviour
MaxExec == 2

\* the W-form mnemonics, and the stores and jumps with a given immediate
ADDW(rd, rs1, rs2)   == EncR(0, rs2, rs1, 0, rd, RTYPE64)
SUBW(rd, rs1, rs2)   == EncR(32, rs2, rs1, 0, rd, RTYPE64)
SLLW(rd, rs1, rs2)   == EncR(0, rs2, rs1, 1, rd, RTYPE64)
SRLW(rd, rs1, rs2)   == EncR(0, rs2, rs1, 5, rd, RTYPE64)
SRAW(rd, rs1, rs2)   == EncR(32, rs2, rs1, 5, rd, RTYPE64)
SLLIW(rd, rs1, shamt) == EncI(shamt, rs1, 1, rd, ITYPE64)
SLT(rd, rs1, rs2)    == EncR(0, rs2, rs1, 2, rd, RTYPE)
SLTU(rd, rs1, rs2)   == EncR(0, rs2, rs1, 3, rd, RTYPE)
SLTI(rd, rs1, imm)   == EncI(imm, rs1, 2, rd, ITYPE)
SLTIU(rd, rs1, imm)  == EncI(imm, rs1, 3, rd, ITYPE)
SRLI(rd, rs1, shamt)  == EncI(shamt, rs1, 5, rd, ITYPE)
SRAI(rd, rs1, shamt)  == EncI(1024 + shamt, rs1, 5, rd, ITYPE)
SRLIW(rd, rs1, shamt) == EncI(shamt, rs1, 5, rd, ITYPE64)
SRAIW(rd, rs1, shamt) == EncI(1024 + shamt, rs1, 5, rd, ITYPE64)
AUIPC_(rd, imm20)    == EncU(imm20, rd, AUIPC)

SUB(rd, rs1, rs2)    == EncR(32, rs2, rs1, 0, rd, RTYPE)
BLT(rs1, rs2, imm)   == EncB(imm, rs2, rs1, 4, BTYPE)
BGE(rs1, rs2, imm)   == EncB(imm, rs2, rs1, 5, BTYPE)
BLTU(rs1, rs2, imm)  == EncB(imm, rs2, rs1, 6, BTYPE)
BGEU(rs1, rs2, imm)  == EncB(imm, rs2, rs1, 7, BTYPE)
LB(rd, imm, rs1)     == EncI(imm, rs1, 0, rd, LOAD)
LH(rd, imm, rs1)     == EncI(imm, rs1, 1, rd, LOAD)
LW(rd, imm, rs1)     == EncI(imm, rs1, 2, rd, LOAD)
LBU(rd, imm, rs1)    == EncI(imm, rs1, 4, rd, LOAD)
LHU(rd, imm, rs1)    == EncI(imm, rs1, 5, rd, LOAD)
LWU(rd, imm, rs1)    == EncI(imm, rs1, 6, rd, LOAD)
SB(rs2, imm, rs1)    == EncS(imm, rs2, rs1, 0, STYPE)
SH(rs2, imm, rs1)    == EncS(imm, rs2, rs1, 1, STYPE)
SW(rs2, imm, rs1)    == EncS(imm, rs2, rs1, 2, STYPE)

FENCE_(pred_succ)     == EncI(pred_succ, 0, 0, 0, FENCE)
FENCE_I               == EncI(0, 0, 1, 0, FENCE)
ECALL                 == EncI(0, 0, 0, 0, EXCEP)
EBREAK                == EncI(1, 0, 0, 0, EXCEP)
CSRRW(rd, csr, rs1)   == EncI(csr, rs1, 1, rd, EXCEP)
CSRRS(rd, csr, rs1)   == EncI(csr, rs1, 2, rd, EXCEP)
CSRRC(rd, csr, rs1)   == EncI(csr, rs1, 3, rd, EXCEP)
CSRRWI(rd, csr, uimm) == EncI(csr, uimm, 5, rd, EXCEP)
CSRRSI(rd, csr, uimm) == EncI(csr, uimm, 6, rd, EXCEP)
CSRRCI(rd, csr, uimm) == EncI(csr, uimm, 7, rd, EXCEP)

\* the values of x1: 5, 0x40000000, -1, an address in the DRAM, the largest
\* i32 and the largest i64; of x2: 1 and -4 (a shift amount of 1 and of 28)
INT32_MAX == SExt(Lshr(Bits(-1, 32), 1), 64)
INT64_MAX == Lshr(Bits(-1, 64), 1)
Operands1 ==
    {Bits(5, 64), Bits(1073741824, 64), Bits(-1, 64), Bits(DATA_BASE + 8, 64),
     INT32_MAX, INT64_MAX}
Operands2 == {Bits(1, 64), Bits(-4, 64)}

\* the addresses the program is at; the ROM starts there
InstrPcs == {0, 64}

\* words that are no instruction of decode: all ones, MUL (RTYPE with
\* funct7 = 1), SLLIW with funct7 = 1, JALR with funct3 = 1, a load with
\* funct3 = 7 and a branch with funct3 = 2
IllegalWords ==
    {Bits(-1, 32), EncR(1, 2, 1, 0, 5, RTYPE), EncI(32 + 1, 1, 1, 5, ITYPE64),
     EncI(0, 1, 1, 5, JALR), EncI(0, 1, 7, 5, LOAD), EncB(8, 2, 1, 2, BTYPE)}

\* the instructions executed alone: every W-form, the additions and
\* subtractions, an instruction of every immediate format with a negative
\* and a positive immediate, every branch, and every load in and out of the
\* DRAM
InstrWords ==
    {ADDW(5, 1, 2), SUBW(5, 1, 2), SLLW(5, 1, 2), SRLW(5, 1, 2), SRAW(5, 1, 2),
     ADDIW(5, 1, -1), SLLIW(5, 1, 1), SRLIW(5, 1, 4), SRAIW(5, 1, 4),
     ADDI(5, 1, -3), ADDI(5, 1, 7), LUI_(5, 912080 - 1048576), LUI_(5, 16),
     AUIPC_(5, -1), JAL_(5, -4), JAL_(5, 2048), BEQ(1, 1, -8), BEQ(1, 1, 2048),
     SD(2, -8, 1), JALR_(5, 1, -4),
     ADD(5, 1, 2), SUB(5, 1, 2), ADDIW(5, 1, 1),
     SRLI(5, 1, 4), SRAI(5, 1, 4), SRAI(5, 1, 0),
     SLT(5, 1, 2), SLTU(5, 1, 2), SLTI(5, 1, 1), SLTIU(5, 1, 1), SLTI(5, 1, -1),
     SLTIU(5, 1, -1),
     JAL_(0, 8), JAL_(5, 4096),
     BEQ(1, 2, 8), BEQ(1, 1, 6), BNE(1, 2, 2048), BNE(1, 1, 8), BLT(1, 2, -8),
     BGE(1, 2, 16), BLTU(1, 2, -8), BGEU(1, 2, 16),
     LB(5, -8, 1), LH(5, -8, 1), LW(5, -8, 1), LD(5, -8, 1), LBU(5, -8, 1),
     LHU(5, -8, 1), LWU(5, -8, 1), LB(5, 0, 1), LW(5, 4, 1), LD(5, 4, 1),
     JALR_(1, 1, 16), JALR_(0, 1, 16)}
        \cup IllegalWords

\* the programs on the CSRs: mscratch (0x340) is set to x2, then read and
\* written by each CSR instruction, with rd = x5 and with rd = rs1 = x1;
\* the same on the slots 0x7FF, 0x800 and 0xFFF; FENCE, FENCE.I, ECALL and
\* EBREAK once a CSR is set
CsrPairs ==
    {<<CSRRW(0, 832, 2), w>> :
        w \in {CSRRW(5, 832, 1), CSRRS(5, 832, 1), CSRRC(5, 832, 1), CSRRWI(5, 832, 21),
               CSRRSI(5, 832, 21), CSRRCI(5, 832, 21), CSRRW(1, 832, 1),
               CSRRS(1, 832, 1), CSRRC(0, 832, 1)}}
      \cup {<<CSRRW(0, csr, 2), CSRRS(5, csr, 0)>> : csr \in {2047, 2048, 4095}}
      \cup {<<CSRRW(0, 832, 2), w>> : w \in {FENCE_(255), FENCE_(0), FENCE_I, ECALL, EBREAK}}

\* the programs of two instructions: a store and the zero-extending load of
\* its width at the same address
InstrPairs ==
    {<<SB(2, -8, 1), LBU(5, -8, 1)>>, <<SH(2, -8, 1), LHU(5, -8, 1)>>,
     <<SW(2, -8, 1), LWU(5, -8, 1)>>, <<SD(2, -8, 1), LD(5, -8, 1)>>,
     <<SW(2, 8, 1), LWU(5, 8, 1)>>}
        \cup CsrPairs

InstrProgs == {<<w>> : w \in InstrWords} \cup InstrPairs

\* the bytes the DRAM starts with: 129..136 (negative as i8), then 1, 2, ...
DramPattern == AsSeq([i \in 1..InstrDramSize |-> IF i <= 8 THEN 128 + i ELSE i - 8])

\* the Cpu with x1 = a, x2 = b, the ROM starting at p with the program prog
\* in it, the pc at p, and the DRAM filled with DramPattern
InstrCpu(a, b, p, prog, chk) ==
    store_from_buffer(
        store_from_buffer(
            set_pc(set_read_only_segment(
                       write_reg(write_reg(CpuNew(InstrDramSize, chk), 1, a), 2, b),
                       Bits(p, 64)),
                   Bits(p, 64)),
            Assemble(prog), Bits(p, 64)),
        DramPattern, DATA_START_DEFAULT)

InitInstr ==
    /\ checked \in BOOLEAN
    /\ \E a \in Operands1, b \in Operands2, p \in InstrPcs, prog \in InstrProgs :
          \E c \in {InstrCpu(a, b, p, prog, checked)} : IsCpu(c)
    /\ fileId = 0
    /\ interactive = FALSE
    /\ mode = "instr"
    /\ count = 0
    /\ steps_left = 0
    /\ ret = -1
    /\ total = 0
    /\ fetched = 0
    /\ op = NoOp

\* an iteration of cpu_loop; op keeps the word executed and the registers
\* and the pc it started from
ExecInstr ==
    /\ mode = "instr"
    /\ count < MaxExec
    /\ \E c \in {cpu_cycle(TheCpu)} : Outcome(c, "instr", 1)
    /\ op' = [kind |-> "exec", instr |-> fetch(TheCpu).instr, regs |-> regs, pc |-> pc]
    /\ UNCHANGED <<checked, fileId, interactive, steps_left, ret, total, fetched>>

NextInstr == ExecInstr

SpecInstr == InitInstr /\ [][NextInstr]_vars

\* the fields of the instruction word w
OpcodeOf(w) == Val(Field(w, 0, 6))
RdOf(w)     == Val(Field(w, 7, 11))
F3Of(w)     == Val(Field(w, 12, 14))
Rs1Of(w)    == Val(Field(w, 15, 19))
Rs2Of(w)    == Val(Field(w, 20, 24))

\* C6: after ADDW, SUBW, SLLW, SRLW, SRAW, ADDIW, SLLIW, SRLIW or SRAIW, for
\* all operand values and shift amounts, bits 63..32 of rd all equal bit 31
\* of rd.
C6_WFormSignExtended ==
    (mode = "instr" /\ op.kind = "exec" /\ OpcodeOf(op.instr) \in {RTYPE64, ITYPE64})
        => \A i \in 33..64 : regs[RdOf(op.instr)][i] = regs[RdOf(op.instr)][32]

\* the immediate of the instruction word w in each format, sign-extended
\* from its field width: 12 bits (I, S), 13 bits (B), 20 bits at 31..12 (U),
\* 21 bits (J)
ImmI(w) == SExt(Field(w, 20, 31), 64)
ImmS(w) == SExt(Field(w, 7, 11) \o Field(w, 25, 31), 64)
ImmB(w) ==
    SExt(<<0>> \o Field(w, 8, 11) \o Field(w, 25, 30) \o Field(w, 7, 7) \o Field(w, 31, 31),
         64)
ImmU(w) == SExt(Bits(0, 12) \o Field(w, 12, 31), 64)
ImmJ(w) ==
    SExt(<<0>> \o Field(w, 21, 30) \o Field(w, 20, 20) \o Field(w, 12, 19)
             \o Field(w, 31, 31), 64)

\* the instruction word w, started at pc p with registers rs, used the
\* sign-extended immediate of its format
UsedSignedImmediate(w, rs, p) ==
    /\ OpcodeOf(w) = LUI => regs[RdOf(w)] = ImmU(w)
    /\ OpcodeOf(w) = AUIPC => regs[RdOf(w)] = WAdd(p, ImmU(w))
    /\ (OpcodeOf(w) = ITYPE /\ F3Of(w) = 0) =>
          regs[RdOf(w)] = WAdd(rs[Rs1Of(w)], ImmI(w))
    /\ OpcodeOf(w) = JALR =>
          pc = BAnd(WAdd(rs[Rs1Of(w)], ImmI(w)), Bits(-2, 64))
    /\ OpcodeOf(w) = JAL => pc = WAdd(p, ImmJ(w))
    /\ (OpcodeOf(w) = BTYPE /\ F3Of(w) = 0 /\ rs[Rs1Of(w)] = rs[Rs2Of(w)]) =>
          pc = WAdd(p, ImmB(w))
    /\ (OpcodeOf(w) = STYPE /\ F3Of(w) = 3) =>
          BusRead(TheCpu.bus, WAdd(rs[Rs1Of(w)], ImmS(w)), 8).val = rs[Rs2Of(w)]

\* C7: for every instruction that carries a signed immediate, the 64-bit
\* value used in its effective-address or arithmetic computation is the
\* sign extension of the immediate at its field width: 12 bits for I-type
\* and S-type, 13 bits for B-type, 20 bits (placed at bits 31..12) for
\* U-type, 21 bits for J-type.
C7_SignedImmediates ==
    (mode = "instr" /\ op.kind = "exec") => UsedSignedImmediate(op.instr, op.regs, op.pc)

\* funct7 of the instruction word w
F7Of(w) == Val(Field(w, 25, 31))

\* w is ADD, SUB, ADDI, ADDW, SUBW or ADDIW
IsAddFamily(w) ==
    \/ OpcodeOf(w) \in {RTYPE, RTYPE64} /\ F3Of(w) = 0 /\ F7Of(w) \in {0, 32}
    \/ OpcodeOf(w) \in {ITYPE, ITYPE64} /\ F3Of(w) = 0

\* the two's-complement result of the instruction w of that family on the
\* registers rs: on 64 bits, or on 32 bits and sign-extended
WrappingResult(w, rs) ==
    LET a    == rs[Rs1Of(w)]
        b    == IF OpcodeOf(w) \in {RTYPE, RTYPE64} THEN rs[Rs2Of(w)] ELSE ImmI(w)
        full == IF OpcodeOf(w) \in {RTYPE, RTYPE64} /\ F7Of(w) = 32
                THEN WSub(a, b) ELSE WAdd(a, b)
    IN IF OpcodeOf(w) \in {RTYPE64, ITYPE64} THEN SExt(Trunc(full, 32), 64) ELSE full

\* C11: ADD, SUB and ADDI (on 64 bits) and ADDW, SUBW and ADDIW (on 32 bits)
\* write the two's-complement wrapping result to rd for all operand values,
\* and an overflowing operand pair never causes a fatal error.
C11_AddFamilyWraps ==
    (op.kind = "exec" /\ IsAddFamily(op.instr)) =>
        /\ mode = "instr"
        /\ regs[RdOf(op.instr)] = WrappingResult(op.instr, op.regs)

\* pc + 4 for the pc p
Pc4(p) == WAdd(p, Bits(4, 64))

\* C12: JAL sets NPC to PC plus the signed 21-bit J-type offset
\* {imm[20], imm[10:1], imm[11], imm[19:12], 0} of the instruction,
\* sign-extended to 64 bits, for every value of the field, and writes PC+4 to
\* rd exactly when rd is not 0.
C12_JalTarget ==
    (op.kind = "exec" /\ OpcodeOf(op.instr) = JAL) =>
        /\ mode = "instr"
        /\ next_pc = WAdd(op.pc, ImmJ(op.instr))
        /\ regs = IF RdOf(op.instr) = 0 THEN op.regs
                  ELSE [op.regs EXCEPT ![RdOf(op.instr)] = Pc4(op.pc)]

\* the branch w is taken on the registers rs
Taken(w, rs) ==
    LET a == rs[Rs1Of(w)]
        b == rs[Rs2Of(w)]
    IN CASE F3Of(w) = 0 -> a = b
         [] F3Of(w) = 1 -> a # b
         [] F3Of(w) = 4 -> SLt(a, b)
         [] F3Of(w) = 5 -> ~SLt(a, b)
         [] F3Of(w) = 6 -> ULt(a, b)
         [] F3Of(w) = 7 -> ~ULt(a, b)
         [] OTHER -> FALSE

\* w is BEQ, BNE, BLT, BGE, BLTU or BGEU
IsBranch(w) == OpcodeOf(w) = BTYPE /\ F3Of(w) \in {0, 1, 4, 5, 6, 7}

\* C13: when a branch (BEQ, BNE, BLT, BGE, BLTU, BGEU) is taken, NPC equals
\* PC plus the signed 13-bit B-type offset (imm[12] from instruction bit 31,
\* imm[11] from bit 7, imm[10:5] from bits 30..25, imm[4:1] from bits 11..8,
\* bit 0 = 0) sign-extended to 64 bits, for every encodable offset; when it
\* is not taken, NPC stays PC+4.
C13_BranchTarget ==
    (op.kind = "exec" /\ IsBranch(op.instr)) =>
        /\ mode = "instr"
        /\ next_pc = IF Taken(op.instr, op.regs) THEN WAdd(op.pc, ImmB(op.instr))
                     ELSE Pc4(op.pc)

\* the region the bus routes the guest address addr to, the offset in it,
\* and whether addr is below the region's base (the ROM's: no offset exists)
Routed(addr) ==
    IF ULt(addr, dram_offset)
    THEN [mem |-> rom, off |-> ToNat(WSub(addr, rom_offset)), below |-> ULt(addr, rom_offset)]
    ELSE [mem |-> dram, off |-> ToNat(WSub(addr, dram_offset)), below |-> FALSE]

\* the n bytes at addr lie in the region addr is routed to
InRange(addr, n) ==
    LET r == Routed(addr) IN ~r.below /\ r.off + n <= Len(r.mem)

\* w is LB, LH, LW, LD, LBU, LHU or LWU; its width in bytes; its address
IsLoad(w) == OpcodeOf(w) = LOAD /\ F3Of(w) \in 0..6
LoadWidth(w) == 2 ^ (F3Of(w) % 4)
LoadAddr(w, rs) == WAdd(rs[Rs1Of(w)], ImmI(w))

\* what the load w leaves in rd: the bytes at its address, sign-extended
\* from the width of LB, LH and LW
LoadResult(w, rs) ==
    LET r == Routed(LoadAddr(w, rs))
        v == RegionValue(r.mem, r.off, LoadWidth(w))
    IN IF F3Of(w) < 3 THEN SExt(Trunc(v, 8 * LoadWidth(w)), 64) ELSE v

\* C14: for every stored byte pattern and every effective address
\* rs1 + sign-extended imm12 in a region, LB, LH and LW write to rd the loaded
\* 8-, 16- or 32-bit value sign-extended to 64 bits, LBU, LHU and LWU write
\* it zero-extended, and LD writes the full 64-bit value.
C14_LoadExtends ==
    (op.kind = "exec" /\ IsLoad(op.instr)
        /\ InRange(LoadAddr(op.instr, op.regs), LoadWidth(op.instr))) =>
        /\ mode = "instr"
        /\ regs[RdOf(op.instr)] = LoadResult(op.instr, op.regs)

\* LB has loaded the byte 129 as -127 and LH the bytes 129, 130 as -32127
C14_Witness ==
    /\ mode = "instr"
    /\ op.kind = "exec"
    /\ \/ op.instr = LB(5, -8, 1) /\ regs[5] = Bits(129 - 256, 64)
       \/ op.instr = LH(5, -8, 1) /\ regs[5] = Bits(129 + 256 * 130 - 65536, 64)

\* w is SB, SH, SW or SD; its width in bytes; its address
IsStore(w) == OpcodeOf(w) = STYPE /\ F3Of(w) \in 0..3
StoreWidth(w) == 2 ^ F3Of(w)
StoreAddr(w, rs) == WAdd(rs[Rs1Of(w)], ImmS(w))

\* l is the zero-extending load of the width of the store s: LBU after SB,
\* LHU after SH, LWU after SW, LD after SD
ZeroExtendingLoadOf(s, l) ==
    /\ IsStore(s)
    /\ OpcodeOf(l) = LOAD
    /\ F3Of(l) = (IF F3Of(s) = 3 THEN 3 ELSE F3Of(s) + 4)

\* C15: a store instruction (SB, SH, SW, SD) of register rs2 to effective
\* address rs1 + sign-extended S-type immediate, followed by the
\* zero-extending load of the same width (LBU, LHU, LWU, LD) from the same
\* effective address, yields in rd the low 1, 2, 4 or 8 bytes of rs2; SD
\* followed by LD returns the value of rs2 unchanged.
C15_StoreThenLoad ==
    [][(/\ mode = "instr"
        /\ op.kind = "exec"
        /\ op'.kind = "exec"
        /\ ZeroExtendingLoadOf(op.instr, op'.instr)
        /\ LoadAddr(op'.instr, op'.regs) = StoreAddr(op.instr, op.regs)) =>
          /\ mode' = "instr"
          /\ regs'[RdOf(op'.instr)] =
                 LowBytes(op.regs[Rs2Of(op.instr)], StoreWidth(op.instr))]_vars

\* LD x5, -8(x1) after SD x2, -8(x1) has left x2 = -4 in x5, and LWU after
\* SW the low four bytes of it
C15_Witness ==
    /\ mode = "instr"
    /\ count = 2
    /\ op.kind = "exec"
    /\ regs[2] = Bits(-4, 64)
    /\ \/ op.instr = LD(5, -8, 1) /\ regs[5] = regs[2]
       \/ op.instr = LWU(5, -8, 1) /\ regs[5] = ZExt(Bits(-4, 32), 64)

\* the (opcode, funct3, funct7) tuple of the word w is one of the encodings
\* decode has an arm for
Supported(w) ==
    LET o == OpcodeOf(w)
        f3 == F3Of(w)
        f7 == F7Of(w)
    IN \/ o \in {LUI, AUIPC, JAL, ITYPE}
       \/ o = JALR /\ f3 = 0
       \/ o = BTYPE /\ f3 \in {0, 1, 4, 5, 6, 7}
       \/ o = LOAD /\ f3 \in 0..6
       \/ o = STYPE /\ f3 \in 0..3
       \/ o = RTYPE /\ (f7 = 0 \/ (f7 = 32 /\ f3 \in {0, 5}))
       \/ o = FENCE /\ f3 \in {0, 1}
       \/ o = EXCEP /\ (f3 \in {1, 2, 3, 5, 6, 7} \/ (f3 = 0 /\ f7 = 0))
       \/ o = ITYPE64 /\ (f3 \in {0, 5} \/ (f3 = 1 /\ f7 = 0))
       \/ o = RTYPE64 /\ ((f7 = 0 /\ f3 \in {0, 1, 5}) \/ (f7 = 32 /\ f3 \in {0, 5}))

\* the word at the pc, when its four bytes lie in the region the pc is in
WordAtPc ==
    LET r == Routed(pc) IN Trunc(RegionValue(r.mem, r.off, 4), 32)

\* C16: fetching an instruction word whose (opcode, funct3, funct7) tuple
\* matches none of the supported encodings is a fatal error that ends the
\* run: PC is not advanced past the offending instruction, and no general
\* register, CSR or memory byte is changed by it.
C16_IllegalIsFatal ==
    [][(mode = "instr" /\ InRange(pc, 4) /\ ~Supported(WordAtPc)) =>
          /\ mode' = "panic"
          /\ pc' = pc
          /\ regs' = regs
          /\ csregs' = csregs
          /\ rom' = rom
          /\ dram' = dram]_vars

\* the run has ended at MUL x5, x1, x2, and at the zero word after an ADD
\* that had written x5
C16_Witness ==
    /\ mode = "panic"
    /\ op.kind = "exec"
    /\ pc = op.pc
    /\ regs = op.regs
    /\ \/ op.instr = EncR(1, 2, 1, 0, 5, RTYPE)
       \/ op.instr = Bits(0, 32) /\ count = 1 /\ regs[5] = Bits(6, 64)

\* the word w, executed on the registers rs, is a load or a store of bytes
\* that do not all lie in the region its address is routed to
AccessOutOfRange(w, rs) ==
    \/ IsLoad(w) /\ ~InRange(LoadAddr(w, rs), LoadWidth(w))
    \/ IsStore(w) /\ ~InRange(StoreAddr(w, rs), StoreWidth(w))

\* C17: a load or store whose offset+width exceeds the size of the memory
\* region it is routed to (including a guest address below the ROM base) is
\* a fatal error that ends the run: it returns no value and leaves every
\* memory byte, general register and CSR as it was before the instruction.
\* The fetch of the instruction is such a load of four bytes at the pc.
C17_OutOfRangeIsFatal ==
    [][(mode = "instr"
          /\ (~InRange(pc, 4) \/ AccessOutOfRange(WordAtPc, regs))) =>
          /\ mode' = "panic"
          /\ regs' = regs
          /\ csregs' = csregs
          /\ rom' = rom
          /\ dram' = dram]_vars

\* the run has ended at LD x5, 4(x1) with x1 four bytes before the end of
\* the DRAM, and at LB x5, 0(x1) with x1 = 5 below the ROM base 64
C17_Witness ==
    /\ mode = "panic"
    /\ op.kind = "exec"
    /\ regs = op.regs
    /\ \/ op.instr = LD(5, 4, 1) /\ regs[1] = Bits(DATA_BASE + 8, 64)
       \/ op.instr = LB(5, 0, 1) /\ regs[1] = Bits(5, 64) /\ rom_offset = Bits(64, 64)

\* program header i of the file buf: where it starts, and its fields
PhdrStart(buf, i) ==
    ToNat(ReadLE(buf, EPHOFF_OFF, 8)) + i * ToNat(ReadLE(buf, EPHENTSIZE_OFF, 2))
PhdrIsSegment(buf, i, flags) ==
    /\ ToNat(ReadLE(buf, PhdrStart(buf, i) + PTYPE_OFF, 4)) = PTYPE_LOAD
    /\ ToNat(ReadLE(buf, PhdrStart(buf, i) + PFLAGS_OFF, 4)) = flags
PhdrSegmentEnd(buf, i) ==
    ToNat(ReadLE(buf, PhdrStart(buf, i) + POFFSET_OFF, 8))
        + ToNat(ReadLE(buf, PhdrStart(buf, i) + PFILESZ_OFF, 8))

\* the file buf is shorter than the ELF header, or its program-header table
\* ends past the end of the file, or the segment selected for the ROM
\* (flags R+X) or for the DRAM (flags R+W), the last one of the table with
\* those flags, ends past the end of the file
FileTruncated(buf) ==
    \/ Len(buf) < EHDR_SIZE
    \/ /\ Len(buf) >= EHDR_SIZE
       /\ ToNat(ReadLE(buf, EPHNUM_OFF, 2)) > 0
       /\ PhdrStart(buf, ToNat(ReadLE(buf, EPHNUM_OFF, 2))) > Len(buf)
    \/ /\ Len(buf) >= EHDR_SIZE
       /\ PhdrStart(buf, ToNat(ReadLE(buf, EPHNUM_OFF, 2))) <= Len(buf)
       /\ \E i \in 0..(ToNat(ReadLE(buf, EPHNUM_OFF, 2)) - 1) :
            \E flags \in {PFLAGS_READ + PFLAGS_EXEC, PFLAGS_READ + PFLAGS_WRITE} :
               /\ PhdrIsSegment(buf, i, flags)
               /\ \A k \in (i + 1)..(ToNat(ReadLE(buf, EPHNUM_OFF, 2)) - 1) :
                     ~PhdrIsSegment(buf, k, flags)
               /\ PhdrSegmentEnd(buf, i) > Len(buf)

\* the files of Files that are cut short
TruncatedFiles == {i \in 1..Len(Files) : FileTruncated(Files[i])}

\* C18: if the input file is shorter than the 64-byte object header, or its
\* program-header table (e_phoff + e_phnum x e_phentsize) or a selected
\* segment's [file offset, file offset + file size) extends past the end of
\* the file, load_program fails and no guest instruction is ever fetched or
\* executed.
C18_TruncatedFileNeverRuns ==
    fileId \in TruncatedFiles =>
        /\ mode \in {"new", "panic"}
        /\ fetched = 0
        /\ count = 0
        /\ total = 0

\* load_program has failed on each kind of file cut short; on the one whose
\* data segment is cut, after the code segment was stored
C18_Witness ==
    /\ mode = "panic"
    /\ fetched = 0
    /\ TruncatedFiles = {7, 8, 9, 10}
    /\ fileId = 10
    /\ rom[1] # 0

\* C19: step(n) (cpu_loop_interactive) executes exactly min(n, k)
\* instructions, where k is the number of instructions remaining until PC
\* first equals the halt sentinel at loop head, and returns that number; it
\* never fetches or executes an instruction while PC equals the sentinel.
\* steps_left is n at the call and one less after each instruction, fetched
\* is the number of instructions of the call: an instruction is fetched only
\* with steps left and the pc off the sentinel, and the call returns, with
\* the number fetched, only when no step is left (n instructions) or the pc
\* is the sentinel (k instructions).
C19_StepExecutesMin ==
    [][/\ (mode = "idle" /\ mode' = "step") =>
             (fetched' = 0 /\ steps_left' \in 0..MaxStep /\ UNCHANGED cpuVars)
       /\ (mode = "step" /\ mode' # "idle") =>
             /\ pc # SENTINEL_RETURN_ADDRESS
             /\ steps_left > 0
             /\ fetched' = fetched + 1
             /\ steps_left' = steps_left - 1
       /\ (mode = "step" /\ mode' = "idle") =>
             /\ steps_left = 0 \/ pc = SENTINEL_RETURN_ADDRESS
             /\ ret' = fetched
             /\ total' = total + fetched
             /\ UNCHANGED <<cpuVars, fetched>>]_vars

\* on the three instructions of S2, step(2) had executed two, and a second
\* step(2) has executed the one left and returned 1 with a step to spare
C19_Witness ==
    /\ interactive
    /\ fileId = 2
    /\ mode = "idle"
    /\ pc = SENTINEL_RETURN_ADDRESS
    /\ steps_left = 1
    /\ ret = 1
    /\ total = 3

\* the region before holds, as after, the buffer buf at offset off: every
\* byte of buf is at off + i, the region has grown to off + Len(buf) if that
\* is past its end, and the bytes outside off .. off + Len(buf) are unchanged
BufferStoredAt(before, after, off, buf) ==
    /\ Len(after) = (IF off + Len(buf) > Len(before) THEN off + Len(buf) ELSE Len(before))
    /\ \A i \in 1..Len(buf) : after[off + i] = buf[i]
    /\ \A j \in 1..Len(before) : (j <= off \/ j > off + Len(buf)) => after[j] = before[j]

\* C20: after store_bytes(buf, offset) (store_n_bytes) on a region of size s,
\* for every i < len(buf) the byte at offset+i equals buf[i]; this also holds
\* when offset+len(buf) > s, in which case the region has been extended to
\* size offset+len(buf), and previously existing bytes outside
\* [offset, offset+len(buf)) are unchanged.
C20_StoreBytesAtOffset ==
    [][(mode = "bus" /\ count' = count + 1 /\ op'.kind = "write_from_buf") =>
          IF op'.addr < ToNat(dram_offset)
          THEN op'.addr >= ToNat(rom_offset) =>
                  /\ mode' = "bus"
                  /\ BufferStoredAt(rom, rom', op'.addr - ToNat(rom_offset), op'.buf)
          ELSE /\ mode' = "bus"
               /\ BufferStoredAt(dram, dram', op'.addr - ToNat(dram_offset), op'.buf)]_vars

\* C22: for every rd and rs1, including rd = rs1, JALR sets NPC to
\* (v + sign-extended imm12) with bit 0 cleared, where v is the value
\* register rs1 held before the instruction, and writes PC+4 to rd exactly
\* when rd is not 0.
C22_JalrTarget ==
    (op.kind = "exec" /\ OpcodeOf(op.instr) = JALR /\ F3Of(op.instr) = 0) =>
        /\ mode = "instr"
        /\ next_pc = BAnd(WAdd(op.regs[Rs1Of(op.instr)], ImmI(op.instr)), Bits(-2, 64))
        /\ regs = IF RdOf(op.instr) = 0 THEN op.regs
                  ELSE [op.regs EXCEPT ![RdOf(op.instr)] = Pc4(op.pc)]

\* w is CSRRW, CSRRS, CSRRC, CSRRWI, CSRRSI or CSRRCI; its CSR field
IsCsrInstr(w) == OpcodeOf(w) = EXCEP /\ F3Of(w) \in {1, 2, 3, 5, 6, 7}
CsrOf(w) == Val(Field(w, 20, 31))

\* the value slot i of the CSR file csrs holds
CsrValue(csrs, i) == IF i \in DOMAIN csrs THEN csrs[i] ELSE Zero64

\* the source operand of the CSR instruction w on the registers rs: rs1, or
\* the zero-extended rs1 field for the -I forms
CsrSource(w, rs) == IF F3Of(w) < 4 THEN rs[Rs1Of(w)] ELSE ZExt(Field(w, 15, 19), 64)

\* the value the CSR instruction w leaves in a CSR that held old
CsrResult(w, old, v) ==
    CASE F3Of(w) % 4 = 1 -> v
      [] F3Of(w) % 4 = 2 -> BOr(old, v)
      [] F3Of(w) % 4 = 3 -> BAnd(old, BNot(v))

\* C23: for CSRRW, CSRRS and CSRRC with any rd and rs1, including rd = rs1,
\* rd (when rd is not 0) receives the value the CSR held before the
\* instruction, and the CSR becomes v, old | v and old & ~v respectively,
\* where v is the value register rs1 held before the instruction; CSRRWI,
\* CSRRSI and CSRRCI do the same with v = the zero-extended 5-bit rs1 field.
\* (Stated on the CSR fields 0..0x7FF.)
C23_CsrReadModifyWrite ==
    [][(mode = "instr" /\ op'.kind = "exec" /\ IsCsrInstr(op'.instr)
          /\ CsrOf(op'.instr) < 2048) =>
          /\ mode' = "instr"
          /\ regs' = IF RdOf(op'.instr) = 0 THEN regs
                     ELSE [regs EXCEPT ![RdOf(op'.instr)] =
                                           CsrValue(csregs, CsrOf(op'.instr))]
          /\ CsrValue(csregs', CsrOf(op'.instr)) =
                 CsrResult(op'.instr, CsrValue(csregs, CsrOf(op'.instr)),
                           CsrSource(op'.instr, regs))]_vars

\* w is an I-type right shift (funct3 = 101) on 64 or on 32 bits
IsRightShiftImm(w) == OpcodeOf(w) \in {ITYPE, ITYPE64} /\ F3Of(w) = 5

\* the right shift of a by n: arithmetic when arith, else logical
RightShift(a, n, arith) == IF arith THEN Ashr(a, n) ELSE Lshr(a, n)

\* what SRLI, SRAI, SRLIW or SRAIW w writes to rd on the registers rs:
\* instruction bit 30 selects the arithmetic shift; the W-forms shift the low
\* 32 bits by the low 5 bits of the shift amount and sign-extend the result
RightShiftImmResult(w, rs) ==
    IF OpcodeOf(w) = ITYPE
    THEN RightShift(rs[Rs1Of(w)], Val(Field(w, 20, 25)), w[31] = 1)
    ELSE SExt(RightShift(Trunc(rs[Rs1Of(w)], 32), Val(Field(w, 20, 24)), w[31] = 1), 64)

\* C24: for the I-type right shifts (funct3 = 101), instruction bit 30
\* selects the operation: when it is set the instruction is SRAI and rd is
\* rs1 shifted right arithmetically (the sign bit fills), when it is clear
\* the instruction is SRLI and rd is rs1 shifted right logically (zero
\* fill); the same holds for SRAIW versus SRLIW on the low 32 bits.
C24_RightShiftImm ==
    (mode = "instr" /\ op.kind = "exec" /\ IsRightShiftImm(op.instr))
        => regs[RdOf(op.instr)] = RightShiftImmResult(op.instr, op.regs)

\* C25: LUI writes to rd the 32-bit value whose bits 31..12 are instruction
\* bits 31..12 and whose low 12 bits are 0, sign-extended to 64 bits (so bits
\* 63..32 of rd equal instruction bit 31); AUIPC writes PC plus that same
\* sign-extended value to rd.
C25_UpperImmediate ==
    (mode = "instr" /\ op.kind = "exec" /\ OpcodeOf(op.instr) \in {LUI, AUIPC})
        => /\ OpcodeOf(op.instr) = LUI =>
                /\ Trunc(regs[RdOf(op.instr)], 32) = Bits(0, 12) \o Field(op.instr, 12, 31)
                /\ \A i \in 33..64 : regs[RdOf(op.instr)][i] = op.instr[32]
           /\ OpcodeOf(op.instr) = AUIPC =>
                regs[RdOf(op.instr)] =
                    WAdd(op.pc, SExt(Bits(0, 12) \o Field(op.instr, 12, 31), 64))

\* w is BLT, BGE, BLTU or BGEU; SLT or SLTU; SLTI or SLTIU
IsOrderBranch(w) == OpcodeOf(w) = BTYPE /\ F3Of(w) \in {4, 5, 6, 7}
IsSetLess(w)     == OpcodeOf(w) = RTYPE /\ F3Of(w) \in {2, 3} /\ F7Of(w) = 0
IsSetLessImm(w)  == OpcodeOf(w) = ITYPE /\ F3Of(w) \in {2, 3}

\* the 64-bit 1 or 0 of a comparison
Flag(b) == IF b THEN Bits(1, 64) ELSE Bits(0, 64)

\* the order of the comparison instruction w on a and b: signed for BLT,
\* BGE, SLT and SLTI, unsigned for BLTU, BGEU, SLTU and SLTIU
Less(w, a, b) ==
    IF (OpcodeOf(w) = BTYPE /\ F3Of(w) \in {4, 5}) \/ (OpcodeOf(w) # BTYPE /\ F3Of(w) = 2)
    THEN SLt(a, b) ELSE ULt(a, b)

\* the comparison instruction w, run at op.pc on the registers op.regs, ended
\* as its order says: the branch left for another address than PC+4 exactly
\* when the condition held, rd is the 1 or 0 of the comparison
ComparedAs(w) ==
    LET a == op.regs[Rs1Of(w)]
        b == op.regs[Rs2Of(w)]
    IN /\ mode = "instr"
       /\ (IsOrderBranch(w) /\ F3Of(w) \in {4, 6}) => ((pc # Pc4(op.pc)) <=> Less(w, a, b))
       /\ (IsOrderBranch(w) /\ F3Of(w) \in {5, 7}) => ((pc # Pc4(op.pc)) <=> ~Less(w, a, b))
       /\ IsSetLess(w) => regs[RdOf(w)] = Flag(Less(w, a, b))
       /\ IsSetLessImm(w) => regs[RdOf(w)] = Flag(Less(w, a, ImmI(w)))

\* the outcome on the operands -1 and 1: signed -1 < 1, unsigned
\* 0xFFFFFFFFFFFFFFFF > 1
OppositeOnMinusOneAndOne(w) ==
    LET signed == (OpcodeOf(w) = BTYPE /\ F3Of(w) \in {4, 5})
                      \/ (OpcodeOf(w) # BTYPE /\ F3Of(w) = 2)
        less   == signed
    IN /\ (IsOrderBranch(w) /\ F3Of(w) \in {4, 6}) => ((pc # Pc4(op.pc)) <=> less)
       /\ (IsOrderBranch(w) /\ F3Of(w) \in {5, 7}) => ((pc # Pc4(op.pc)) <=> ~less)
       /\ ~IsOrderBranch(w) => regs[RdOf(w)] = Flag(less)

\* C26: BLT, BGE, SLT and SLTI compare their operands as signed 64-bit
\* values, while BLTU, BGEU, SLTU and SLTIU compare the same bit patterns as
\* unsigned 64-bit values (SLTIU against the sign-extended immediate
\* reinterpreted as unsigned); on the operands -1 and 1 the signed and the
\* unsigned form of each comparison give opposite results.
C26_SignedUnsignedCompare ==
    (op.kind = "exec"
        /\ (IsOrderBranch(op.instr) \/ IsSetLess(op.instr) \/ IsSetLessImm(op.instr)))
        => /\ ComparedAs(op.instr)
           /\ (op.regs[1] = Bits(-1, 64)
                 /\ (IF IsSetLessImm(op.instr) THEN ImmI(op.instr) ELSE op.regs[2])
                        = Bits(1, 64))
                 => OppositeOnMinusOneAndOne(op.instr)

\* BLT on -1 and 1 was taken, as BLTU on them is not
C26_Witness ==
    /\ mode = "instr" /\ op.kind = "exec" /\ op.instr = BLT(1, 2, -8)
    /\ op.regs[1] = Bits(-1, 64) /\ op.regs[2] = Bits(1, 64)
    /\ pc # Pc4(op.pc)

\* w is FENCE, FENCE.I, ECALL or EBREAK
IsNoEffect(w) ==
    \/ OpcodeOf(w) = FENCE /\ F3Of(w) \in {0, 1}
    \/ OpcodeOf(w) = EXCEP /\ F3Of(w) = 0 /\ F7Of(w) = 0 /\ Rs2Of(w) \in {0, 1}

\* C27: executing FENCE, FENCE.I, ECALL or EBREAK changes no general
\* register, no CSR and no memory byte; the only state change of the cycle is
\* PC (and NPC with it) becoming PC+4.
C27_NoEffect ==
    [][(mode = "instr" /\ op'.kind = "exec" /\ IsNoEffect(op'.instr)) =>
          /\ mode' = "instr"
          /\ regs' = regs /\ csregs' = csregs
          /\ rom' = rom /\ dram' = dram
          /\ rom_offset' = rom_offset /\ dram_offset' = dram_offset
          /\ pc' = Pc4(pc) /\ next_pc' = pc']_vars

\* an ECALL was executed at PC 68 with mscratch set
C27_Witness ==
    /\ mode = "instr" /\ op.kind = "exec" /\ op.instr = ECALL
    /\ op.pc = Bits(68, 64) /\ pc = Bits(72, 64)
    /\ 832 \in DOMAIN csregs

\* C28: for every 12-bit CSR field value c in 0..4095 (including values
\* with bit 11 set, 0x800..0xFFF), a CSR instruction accesses CSR slot c
\* without a fatal error, and a value written to slot c by CSRRW is the value
\* delivered to rd by the next CSR instruction that reads slot c: the
\* instruction does not panic, rd receives what slot c holds, and after
\* CSRRW (rd other than rs1) slot c holds the value of rs1.
C28_CsrSlots ==
    [][(mode = "instr" /\ op'.kind = "exec" /\ IsCsrInstr(op'.instr)) =>
          /\ mode' = "instr"
          /\ RdOf(op'.instr) # 0 =>
                regs'[RdOf(op'.instr)] = CsrValue(csregs, CsrOf(op'.instr))
          /\ (F3Of(op'.instr) = 1 /\ RdOf(op'.instr) # Rs1Of(op'.instr)) =>
                CsrValue(csregs', CsrOf(op'.instr)) = regs[Rs1Of(op'.instr)]]_vars

(***************************************************************************)
(* The halted state and the two loops (Spec)                               *)
(***************************************************************************)

\* the CPU is halted: a program is loaded and PC is the halt sentinel
Halted == mode \in {"idle", "run", "step"} /\ pc = SENTINEL_RETURN_ADDRESS

\* C29: the halted state is absorbing: once PC equals the halt sentinel
\* 0xFFFFFFFFFFFFFFFE, every further call of run() or step(n), for any n,
\* returns 0 and leaves PC, NPC, all general registers, all CSRs and both
\* memory regions unchanged.  (A call that has fetched nothing when it finds
\* the sentinel is a call entered in the halted state.)
C29_HaltedAbsorbing ==
    [][Halted =>
          /\ cpuVars' = cpuVars
          /\ fetched' \in {fetched, 0}
          /\ (mode \in {"run", "step"} /\ fetched = 0 /\ mode' # mode) => ret' = 0]_vars

\* a call entered in the halted state, after the program ran, returned 0
C29_Witness ==
    /\ mode = "idle" /\ pc = SENTINEL_RETURN_ADDRESS
    /\ total > 0 /\ ret = 0 /\ fetched = 0 /\ steps_left > 0

\* Cpu::cpu_loop as a function of the Cpu, for at most fuel instructions:
\* the Cpu it ends in, the count it returns, and whether it found the sentinel
RECURSIVE cpu_loop(_, _)
cpu_loop(c, fuel) ==
    IF ~c.ok THEN [cpu |-> c, n |-> 0, halted |-> FALSE]
    ELSE IF c.pc = SENTINEL_RETURN_ADDRESS THEN [cpu |-> c, n |-> 0, halted |-> TRUE]
    ELSE IF fuel = 0 THEN [cpu |-> c, n |-> 0, halted |-> FALSE]
    ELSE CHOOSE counted \in
             {[r EXCEPT !.n = r.n + 1] :
                 r \in {cpu_loop(d, fuel - 1) : d \in {cpu_cycle(c)}}} : TRUE

\* the instructions counted so far: by the calls that returned and by the
\* call under way
Done == total + IF mode \in {"run", "step"} THEN count ELSE 0

\* what run() would end in from the present Cpu and from the Cpu after the
\* step, with the count it would return
RunFromHere == cpu_loop(TheCpu, MaxInstr - Done)
RunFromNext == cpu_loop(TheCpu', MaxInstr - Done')

\* a step of the emulator, taken where run() would halt the guest, leaves
\* unchanged the Cpu run() would end in and the count reached with it
RunPreserved ==
    mode \in {"idle", "run", "step"} =>
        \A here \in {RunFromHere} :
            here.halted =>
                /\ mode' \in {"idle", "run", "step", "exit"}
                /\ \A next \in {RunFromNext} :
                       /\ next.halted
                       /\ next.cpu = here.cpu
                       /\ Done' + next.n = Done + here.n

\* C30: from any CPU state from which the guest halts, run() and any
\* sequence of step(n) calls continued until PC equals the halt sentinel end
\* in the same PC, general registers, CSRs and memory contents, and the sum
\* of the counts returned by the step calls equals the count returned by
\* run(): every step of every call leaves unchanged the Cpu run() would end
\* in from there and the count the session would reach with it.
C30_RunEqualsSteps == [][RunPreserved]_vars

\* the guest was brought to the sentinel by several calls, the last a
\* step(2) that ran one instruction
C30_Witness ==
    /\ mode = "idle" /\ pc = SENTINEL_RETURN_ADDRESS
    /\ ret = 1 /\ steps_left = 1 /\ fetched = 1 /\ total > 2

(***************************************************************************)
(* The program headers alone (SpecElf): the ELF header, the program        *)
(* headers and the address space are read from a file whose table holds    *)
(* up to MaxPhdrs headers of every kind.                                    *)
(***************************************************************************)

\* most program headers in a file
MaxPhdrs == 2

\* the kinds of header: <<p_type, p_flags>>, p_type 1 (LOAD) or 2 (DYNAMIC),
\* flags R+X, R+W, R and R+W+X
PhdrKinds == {1, 2} \X {5, 6, 4, 7}

\* the tables: every sequence of up to MaxPhdrs kinds
PhdrTables == UNION {[1..n -> PhdrKinds] : n \in 0..MaxPhdrs}

\* the header at position k of a table: its address, file offset and file
\* size tell the position
PhdrAt(kind, k) == MkPhdr(kind[1], kind[2], 200 + 16 * k, 4096 * k, 8 + k)

RECURSIVE PhdrBytes(_, _)
PhdrBytes(table, k) ==
    IF k > Len(table) THEN <<>> ELSE PhdrAt(table[k], k) \o PhdrBytes(table, k + 1)

\* the file with the table
ElfOfTable(table) == AsSeq(MkEhdr(0, Len(table)) \o PhdrBytes(table, 1))

\* Emulator::load_program up to get_addrspace: read_header, read_progheaders,
\* get_addrspace
read_addrspace(buf) ==
    LET hdr == ElfHeader_from_buffer(buf)
        phs == IF hdr.ok THEN read_progheaders(buf, hdr, 0) ELSE [ok |-> FALSE]
    IN IF ~phs.ok THEN [ok |-> FALSE]
       ELSE [ok |-> TRUE, as |-> get_addrspace(phs.hdrs, 1, AddressSpaceNew)]

InitElf ==
    /\ checked \in BOOLEAN
    /\ \E memsize \in DramSizes : IsCpu(CpuNew(memsize, checked))
    /\ fileId = 0
    /\ interactive = FALSE
    /\ mode = "elf"
    /\ count = 0
    /\ steps_left = 0
    /\ ret = -1
    /\ total = 0
    /\ fetched = 0
    /\ \E table \in PhdrTables : op = [kind |-> "file", buf |-> ElfOfTable(table)]

\* the address space of the file is read
ReadAddrSpace ==
    /\ mode = "elf"
    /\ op.kind = "file"
    /\ \E r \in {read_addrspace(op.buf)} :
          /\ mode' = IF r.ok THEN "elf" ELSE "panic"
          /\ op' = [kind |-> "addrspace", buf |-> op.buf, r |-> r]
    /\ UNCHANGED <<checked, fileId, interactive, cpuVars, count, steps_left, ret, total,
                   fetched>>

NextElf == ReadAddrSpace

SpecElf == InitElf /\ [][NextElf]_vars

\* the number of program headers of the file buf
PhdrCount(buf) == ToNat(ReadLE(buf, EPHNUM_OFF, 2))

\* header i of buf is the one the loader reports for flags: the last header
\* of type 1 with those flags
Reported(buf, i, flags) ==
    /\ PhdrIsSegment(buf, i, flags)
    /\ \A k \in (i + 1)..(PhdrCount(buf) - 1) : ~PhdrIsSegment(buf, k, flags)

\* base, offset and size are those of the reported header with flags, or
\* the defaults dbase, 0, 0 when buf has no header of type 1 with flags
SegmentOf(buf, flags, base, offset, size, dbase) ==
    IF \E i \in 0..(PhdrCount(buf) - 1) : PhdrIsSegment(buf, i, flags)
    THEN \E i \in 0..(PhdrCount(buf) - 1) :
            /\ Reported(buf, i, flags)
            /\ base = ReadLE(buf, PhdrStart(buf, i) + PPADDR_OFF, 8)
            /\ offset = ToNat(ReadLE(buf, PhdrStart(buf, i) + POFFSET_OFF, 8))
            /\ size = ToNat(ReadLE(buf, PhdrStart(buf, i) + PFILESZ_OFF, 8))
    ELSE base = Bits(dbase, 64) /\ offset = 0 /\ size = 0

\* C21: the loader reports as the code segment the (guest physical address,
\* file offset, file size) of a program header with type 1 and flags 0x5,
\* and as the data segment those of a program header with type 1 and flags
\* 0x6; a header whose type is not 1 never contributes; when no header of a
\* kind exists, that kind's values are the defaults: code base 0x0, data
\* base 0x00020000, size 0 and file offset 0.
C21_AddressSpace ==
    (mode \in {"elf", "panic"} /\ op.kind = "addrspace") =>
        /\ op.r.ok
        /\ SegmentOf(op.buf, 5, op.r.as.read_execute_segment, op.r.as.read_execute_offset,
                     op.r.as.read_execute_size, 0)
        /\ SegmentOf(op.buf, 6, op.r.as.read_write_segment, op.r.as.read_write_offset,
                     op.r.as.read_write_size, 131072)

\* the address space of a table with a DYNAMIC header of flags 5 followed by
\* a LOAD header of flags 6: the code segment is the default, the data
\* segment is the second header's
C21_Witness ==
    /\ mode = "elf"
    /\ op.kind = "addrspace"
    /\ op.buf = ElfOfTable(<<(<<2, 5>>), (<<1, 6>>)>>)
    /\ op.r.as.read_execute_segment = Zero64
    /\ op.r.as.read_execute_size = 0
    /\ op.r.as.read_write_segment = Bits(4096 * 2, 64)
    /\ op.r.as.read_write_offset = 232
    /\ op.r.as.read_write_size = 10

=============================================================================
